---- MODULE Spec2Model ----
(***************************************************************************)
(* The PTX parser front end of ptx_parser/src/main.rs: the token stream    *)
(* with its diagnostic buffer, the numeric literal parsers, the directive  *)
(* and statement grammar and the instruction rule table.                   *)
(*                                                                         *)
(* A text (an identifier, a numeric literal) is a sequence of one-character*)
(* strings.  A token is a record [k, s]: k its kind, s its text (<<>> for  *)
(* a token without payload).  An integer value is four 16-bit limbs, least *)
(* significant first, so that 64-bit arithmetic keeps its width.  A stream *)
(* is [input, state]: the tokens not yet consumed and the diagnostics      *)
(* pushed so far.  A parser maps a stream to a result                      *)
(* [ok, input, state, val]; on failure input is where the cursor was left. *)
(* An Option is <<>> (None) or <<v>> (Some(v)).                            *)
(***************************************************************************)
EXTENDS Integers, Sequences, FiniteSets

VARIABLES tokens, lexeme, typed, entry, start, out

vars == <<tokens, lexeme, typed, entry, start, out>>

\* ------------------------------------------------------------------ bounds

\* Characters the lexer reads one by one into a numeric literal (after its seed).
MaxNumTyped == 2

\* Characters the lexer reads one by one into a word (after its seed).
MaxIdentTyped == 2

\* characters typed into the word after the "." of an operand
MaxSuffixTyped == 2

\* modifiers the lexer emits after an opcode
MaxModifiers == 5

\* values written after one tuning directive
MaxTupleValues == 3

\* tuning directives the lexer emits after a declaration
MaxTunings == 2

\* functions the lexer emits in a module
MaxDirectives == 2

\* statements and blocks the lexer emits in a function body
MaxBodyItems == 5

\* blocks the lexer opens inside one another, the body included
MaxDepth == 2

\* ------------------------------------------------------------- characters

DecDigits == {"0", "1", "2", "3", "4", "5", "6", "7", "8", "9"}

LowerLetters == {"a", "b", "c", "d", "e", "f", "g", "h", "i", "j", "k", "l", "m",
                 "n", "o", "p", "q", "r", "s", "t", "u", "v", "w", "x", "y", "z"}

UpperLetters == {"A", "B", "C", "D", "E", "F", "G", "H", "I", "J", "K", "L", "M",
                 "N", "O", "P", "Q", "R", "S", "T", "U", "V", "W", "X", "Y", "Z"}

AlphaNum == DecDigits \cup LowerLetters \cup UpperLetters

\* char::to_digit for a radix of at most 16: 36 stands for "no digit".
ToDigit(c) ==
    CASE c = "0" -> 0 [] c = "1" -> 1 [] c = "2" -> 2 [] c = "3" -> 3
      [] c = "4" -> 4 [] c = "5" -> 5 [] c = "6" -> 6 [] c = "7" -> 7
      [] c = "8" -> 8 [] c = "9" -> 9
      [] c \in {"a", "A"} -> 10 [] c \in {"b", "B"} -> 11
      [] c \in {"c", "C"} -> 12 [] c \in {"d", "D"} -> 13
      [] c \in {"e", "E"} -> 14 [] c \in {"f", "F"} -> 15
      [] OTHER -> 36

\* ---------------------------------------------------------- wide integers

LimbBase == 2 ^ 16

Zero == <<0, 0, 0, 0>>

Small(n) == <<n % LimbBase, n \div LimbBase, 0, 0>>

\* acc * radix + d over 64 bits; carry tells that the result left 64 bits.
MulAdd(v, radix, d) ==
    LET l1 == v[1] * radix + d
        l2 == v[2] * radix + (l1 \div LimbBase)
        l3 == v[3] * radix + (l2 \div LimbBase)
        l4 == v[4] * radix + (l3 \div LimbBase)
    IN [v |-> <<l1 % LimbBase, l2 % LimbBase, l3 % LimbBase, l4 % LimbBase>>,
        carry |-> l4 \div LimbBase > 0]

LimbBits(bits, i) ==
    LET b == bits - 16 * (i - 1) IN IF b < 0 THEN 0 ELSE IF b > 16 THEN 16 ELSE b

\* v < 2^bits
FitsBits(v, bits) == \A i \in 1..4 : v[i] < 2 ^ LimbBits(bits, i)

RECURSIVE Accumulate(_, _, _, _, _)
Accumulate(text, i, radix, bits, v) ==
    IF i > Len(text) THEN [isOk |-> TRUE, v |-> v]
    ELSE LET d == ToDigit(text[i])
             m == MulAdd(v, radix, d)
         IN IF d >= radix \/ m.carry \/ ~FitsBits(m.v, bits)
            THEN [isOk |-> FALSE, v |-> Zero]
            ELSE Accumulate(text, i + 1, radix, bits, m.v)

\* <int>::from_str_radix for a non-negative type of the given width in bits
\* (63 for i64, 31 for i32): Err on the empty text, on a character that is no
\* digit of the radix, and on overflow.
FromStrRadix(text, radix, bits) ==
    IF text = <<>> THEN [isOk |-> FALSE, v |-> Zero]
    ELSE Accumulate(text, 1, radix, bits, Zero)

\* ------------------------------------------------------------------ tokens

Unit(k) == [k |-> k, s |-> <<>>]

Text(k, s) == [k |-> k, s |-> s]

\* ---------------------------------------------------- streams and results

Stream(ts) == [input |-> ts, state |-> <<>>]

After(r) == [input |-> r.input, state |-> r.state]

Ok(st, v) == [ok |-> TRUE, input |-> st.input, state |-> st.state, val |-> v]

Fail(st) == [ok |-> FALSE, input |-> st.input, state |-> st.state, val |-> <<>>]

\* a failed attempt leaves the cursor where it failed
ResetTo_failure_point(s, r) == After(r)

\* Stream::reset to the checkpoint taken at st: the cursor goes back, the
\* diagnostics pushed since stay.
ResetTo(st, r) == [input |-> st.input, state |-> r.state]

Map(r, v) == [r EXCEPT !.val = v]

\* winnow::token::any
any(st) == IF st.input = <<>> THEN Fail(st)
           ELSE [ok |-> TRUE, input |-> Tail(st.input), state |-> st.state,
                 val |-> Head(st.input)]

\* impl Parser for Token: any.verify(|t| t == self)
Tok(st, k) ==
    LET r == any(st)
    IN IF r.ok /\ r.val.k = k THEN r ELSE Fail(st)

\* winnow::combinator::opt applied to the result r of its parser run at st
Opt(st, r) ==
    IF r.ok THEN Map(r, <<r.val>>) ELSE Ok(ResetTo(st, r), <<>>)

\* a sequence of parsers: r is the outcome of a parser and K what follows
\* it; the failure of r is the failure of the sequence
Bind(r, K(_)) == IF r.ok THEN K(r) ELSE r

\* winnow::combinator::alt: r is the outcome of an alternative run at s and
\* K the alternatives after it, run from s when r failed
OrElse(s, r, K(_)) == IF r.ok THEN r ELSE K(ResetTo(s, r))

\* fn ident
ident(st) ==
    LET r == any(st)
    IN IF r.ok /\ r.val.k \in {"Ident", "Opcode"} THEN Map(r, r.val.s) ELSE Fail(st)

EndsWithU(s) == Len(s) > 0 /\ s[Len(s)] = "U"

\* fn num with every Decimal token read in radix 10
num_radix_ten(st) ==
    LET r == any(st)
        s == r.val.s
    IN IF ~r.ok THEN Fail(st)
       ELSE IF r.val.k = "Hex"
       THEN IF EndsWithU(s)
            THEN Map(r, [text |-> SubSeq(s, 3, Len(s) - 1), radix |-> 16, unsigned |-> TRUE])
            ELSE Map(r, [text |-> SubSeq(s, 3, Len(s)), radix |-> 16, unsigned |-> FALSE])
       ELSE IF r.val.k = "Decimal"
       THEN IF EndsWithU(s)
            THEN Map(r, [text |-> SubSeq(s, 1, Len(s) - 1), radix |-> 10, unsigned |-> TRUE])
            ELSE Map(r, [text |-> s, radix |-> 10, unsigned |-> FALSE])
       ELSE Fail(st)

\* fn num
num(st) ==
    LET r == any(st)
        s == r.val.s
    IN IF ~r.ok THEN Fail(st)
       ELSE IF r.val.k = "Hex"
       THEN IF EndsWithU(s)
            THEN Map(r, [text |-> SubSeq(s, 3, Len(s) - 1), radix |-> 16, unsigned |-> TRUE])
            ELSE Map(r, [text |-> SubSeq(s, 3, Len(s)), radix |-> 16, unsigned |-> FALSE])
       ELSE IF r.val.k = "Decimal"
       THEN LET radix == IF s[1] = "0" THEN 8 ELSE 10
            IN IF EndsWithU(s)
               THEN Map(r, [text |-> SubSeq(s, 1, Len(s) - 1), radix |-> radix, unsigned |-> TRUE])
               ELSE Map(r, [text |-> s, radix |-> radix, unsigned |-> FALSE])
       ELSE Fail(st)

\* Result<O, (O, PtxError)>
ROk(v) == [isOk |-> TRUE, v |-> v, err |-> "none"]

RErr(v, e) == [isOk |-> FALSE, v |-> v, err |-> e]

\* take_error without its push
take_error_nopush(r) ==
    IF ~r.ok THEN r ELSE Map(r, r.val.v)

\* fn take_error, applied to the result r of its parser
take_error(r) ==
    IF ~r.ok THEN r
    ELSE IF r.val.isOk THEN Map(r, r.val.v)
    ELSE [ok |-> TRUE, input |-> r.input, state |-> Append(r.state, r.val.err),
          val |-> r.val.v]

S64(neg, mag) == [tag |-> "S64", neg |-> neg /\ mag # Zero, mag |-> mag]

U64(mag) == [tag |-> "U64", neg |-> FALSE, mag |-> mag]

\* the closure of int_immediate with the U suffix looked at before the sign
int_immediate_map_unsigned_first(neg, x) ==
    IF x.unsigned
    THEN LET p == FromStrRadix(x.text, x.radix, 64)
         IN IF p.isOk THEN ROk(U64(p.v)) ELSE RErr(U64(Zero), "ParseInt")
    ELSE IF neg # <<>>
    THEN LET p == FromStrRadix(x.text, x.radix, 63)
         IN IF p.isOk THEN ROk(S64(TRUE, p.v)) ELSE RErr(S64(FALSE, Zero), "ParseInt")
    ELSE LET p == FromStrRadix(x.text, x.radix, 63)
             q == FromStrRadix(x.text, x.radix, 64)
         IN IF p.isOk THEN ROk(S64(FALSE, p.v))
            ELSE IF q.isOk THEN ROk(U64(q.v))
            ELSE RErr(U64(Zero), "ParseInt")

\* the closure of int_immediate with the magnitude of a negative literal
\* parsed as a u64 before it is negated
int_immediate_map_wide_magnitude(neg, x) ==
    IF neg # <<>>
    THEN LET p == FromStrRadix(x.text, x.radix, 64)
         IN IF p.isOk THEN ROk(S64(TRUE, p.v)) ELSE RErr(S64(FALSE, Zero), "ParseInt")
    ELSE IF x.unsigned
    THEN LET p == FromStrRadix(x.text, x.radix, 64)
         IN IF p.isOk THEN ROk(U64(p.v)) ELSE RErr(U64(Zero), "ParseInt")
    ELSE LET p == FromStrRadix(x.text, x.radix, 63)
             q == FromStrRadix(x.text, x.radix, 64)
         IN IF p.isOk THEN ROk(S64(FALSE, p.v))
            ELSE IF q.isOk THEN ROk(U64(q.v))
            ELSE RErr(U64(Zero), "ParseInt")

\* the closure of int_immediate
int_immediate_map(neg, x) ==
    IF neg # <<>>
    THEN LET p == FromStrRadix(x.text, x.radix, 63)
         IN IF p.isOk THEN ROk(S64(TRUE, p.v)) ELSE RErr(S64(FALSE, Zero), "ParseInt")
    ELSE IF x.unsigned
    THEN LET p == FromStrRadix(x.text, x.radix, 64)
         IN IF p.isOk THEN ROk(U64(p.v)) ELSE RErr(U64(Zero), "ParseInt")
    ELSE LET p == FromStrRadix(x.text, x.radix, 63)
             q == FromStrRadix(x.text, x.radix, 64)
         IN IF p.isOk THEN ROk(S64(FALSE, p.v))
            ELSE IF q.isOk THEN ROk(U64(q.v))
            ELSE RErr(U64(Zero), "ParseInt")

\* (opt(Token::Minus), num).map(closure): the parser int_immediate hands to
\* take_error
int_immediate_inner(st) ==
    LET neg == Opt(st, Tok(st, "Minus"))
        x == num(After(neg))
    IN IF x.ok THEN Map(x, int_immediate_map(neg.val, x.val)) ELSE x

\* fn int_immediate
int_immediate(st) == take_error(int_immediate_inner(st))

\* the closure of s32
s32_map(sign, x) ==
    LET p == FromStrRadix(x.text, x.radix, 31)
    IN IF p.isOk THEN ROk([neg |-> sign # <<>> /\ p.v # Zero, mag |-> p.v])
       ELSE RErr([neg |-> FALSE, mag |-> Zero], "ParseInt")

s32_inner(st) ==
    LET sign == Opt(st, Tok(st, "Minus"))
        x == num(After(sign))
    IN IF x.ok THEN Map(x, s32_map(sign.val, x.val)) ELSE x

\* fn s32
s32(st) == take_error(s32_inner(st))

\* the closure shared by u8 and u32: <uN>::from_str_radix of the text
unsigned_map(x, bits) ==
    LET p == FromStrRadix(x.text, x.radix, bits)
    IN IF p.isOk THEN ROk(p.v) ELSE RErr(Zero, "ParseInt")

unsigned_inner(st, bits) ==
    LET x == num(st)
    IN IF x.ok THEN Map(x, unsigned_map(x.val, bits)) ELSE x

\* fn u8
u8(st) == take_error(unsigned_inner(st, 8))

\* fn u32
u32(st) == take_error(unsigned_inner(st, 32))

\* the closure shared by f32 and f64: the bit pattern after the 0f / 0d prefix
float_map(f, bits) ==
    LET p == FromStrRadix(SubSeq(f, 3, Len(f)), 16, bits)
    IN IF p.isOk THEN ROk(p.v) ELSE RErr(Zero, "ParseInt")

\* any.verify_map(closure) of f32 (kind "F32", 32 bits) and f64
float_inner(st, kind, bits) ==
    LET r == any(st)
    IN IF r.ok /\ r.val.k = kind THEN Map(r, float_map(r.val.s, bits)) ELSE Fail(st)

\* fn f32: the value is kept as its bit pattern (f32::from_bits)
f32(st) == take_error(float_inner(st, "F32", 32))

\* fn f64
f64(st) == take_error(float_inner(st, "F64", 64))

\* fn immediate_value
immediate_value(st) ==
    LET a == int_immediate(st)
        b == f32(ResetTo(st, a))
        c == f64(ResetTo(st, b))
    IN IF a.ok THEN a
       ELSE IF b.ok THEN Map(b, [tag |-> "F32", neg |-> FALSE, mag |-> b.val])
       ELSE IF c.ok THEN Map(c, [tag |-> "F64", neg |-> FALSE, mag |-> c.val])
       ELSE c

\* ---------------------------------------------------------------- operands

\* vector_index that numbers the components from 1
vector_index_from_one(inp) ==
    IF inp \in {<<"x">>, <<"r">>} THEN ROk(1)
    ELSE IF inp \in {<<"y">>, <<"g">>} THEN ROk(2)
    ELSE IF inp \in {<<"z">>, <<"b">>} THEN ROk(3)
    ELSE IF inp \in {<<"w">>, <<"a">>} THEN ROk(4)
    ELSE RErr(0, "WrongVectorElement")

\* ParsedOperand::parse::vector_index: Ok(index) or Err(WrongVectorElement)
vector_index(inp) ==
    IF inp \in {<<"x">>, <<"r">>} THEN ROk(0)
    ELSE IF inp \in {<<"y">>, <<"g">>} THEN ROk(1)
    ELSE IF inp \in {<<"z">>, <<"b">>} THEN ROk(2)
    ELSE IF inp \in {<<"w">>, <<"a">>} THEN ROk(3)
    ELSE RErr(0, "WrongVectorElement")

Reg(name) == [tag |-> "Reg", name |-> name]

RegOffset(name, offset) == [tag |-> "RegOffset", name |-> name, offset |-> offset]

VecMember(name, index) == [tag |-> "VecMember", name |-> name, index |-> index]

Imm(v) == [tag |-> "Imm", value |-> v]

VecPack(names) == [tag |-> "VecPack", names |-> names]

\* the closure handed to take_error in ident_operands
vec_member_map(main_ident, suffix) ==
    LET i == vector_index(suffix)
    IN IF i.isOk THEN ROk(VecMember(main_ident, i.v))
       ELSE RErr(VecMember(main_ident, 0), i.err)

\* ParsedOperand::parse::ident_operands
ident_operands(st) ==
    Bind(ident(st), LAMBDA main_ident :
    OrElse(After(main_ident),
           Bind(Tok(After(main_ident), "Plus"), LAMBDA plus :
           Bind(s32(After(plus)), LAMBDA offset :
             Map(offset, RegOffset(main_ident.val, offset.val)))),
    LAMBDA s1 :
    OrElse(s1,
           take_error(Bind(Tok(s1, "Dot"), LAMBDA dot :
                      Bind(ident(After(dot)), LAMBDA suffix :
                        Map(suffix, vec_member_map(main_ident.val, suffix.val))))),
    LAMBDA s2 : Ok(s2, Reg(main_ident.val)))))

\* ParsedOperand::parse::vector_operand (it opens and closes with "[")
vector_operand(st) ==
    Bind(Tok(st, "LBracket"), LAMBDA o :
    Bind(ident(After(o)), LAMBDA r1 :
    Bind(Tok(After(r1), "Comma"), LAMBDA c1 :
    Bind(ident(After(c1)), LAMBDA r2 :
    Bind(any(After(r2)), LAMBDA d :
      IF d.val.k = "LBracket" THEN Map(d, <<r1.val, r2.val>>)
      ELSE IF d.val.k # "Comma" THEN Fail(After(d))
      ELSE Bind(ident(After(d)), LAMBDA r3 :
           Bind(Tok(After(r3), "Comma"), LAMBDA c3 :
           Bind(ident(After(c3)), LAMBDA r4 :
           Bind(Tok(After(r4), "LBracket"), LAMBDA e :
             Map(e, <<r1.val, r2.val, r3.val, r4.val>>))))))))))

\* ParsedOperand::parse
ParsedOperand_parse(st) ==
    OrElse(st, ident_operands(st), LAMBDA s1 :
    OrElse(s1, Bind(immediate_value(s1), LAMBDA v : Map(v, Imm(v.val))), LAMBDA s2 :
    Bind(vector_operand(s2), LAMBDA names : Map(names, VecPack(names.val)))))

\* ------------------------------------------------------ instruction rules
\* The rule table handed to derive_parser!.  A modifier token is named by
\* its PTX spelling.

\* fn scalar_type: the ScalarType of a type token
ScalarTypeOf ==
    [t \in {".s8", ".s16", ".s16x2", ".s32", ".s64", ".u8", ".u16", ".u16x2",
            ".u32", ".u64", ".b8", ".b16", ".b32", ".b64", ".b128", ".pred",
            ".f16", ".f16x2", ".f32", ".f64", ".bf16", ".bf16x2"} |->
        CASE t = ".s8" -> "S8" [] t = ".s16" -> "S16" [] t = ".s16x2" -> "S16x2"
          [] t = ".s32" -> "S32" [] t = ".s64" -> "S64" [] t = ".u8" -> "U8"
          [] t = ".u16" -> "U16" [] t = ".u16x2" -> "U16x2" [] t = ".u32" -> "U32"
          [] t = ".u64" -> "U64" [] t = ".b8" -> "B8" [] t = ".b16" -> "B16"
          [] t = ".b32" -> "B32" [] t = ".b64" -> "B64" [] t = ".b128" -> "B128"
          [] t = ".pred" -> "Pred" [] t = ".f16" -> "F16" [] t = ".f16x2" -> "F16x2"
          [] t = ".f32" -> "F32" [] t = ".f64" -> "F64" [] t = ".bf16" -> "BF16"
          [] t = ".bf16x2" -> "BF16x2"]

\* the VectorPrefix of .v2 / .v4
VectorPrefixOf(t) == IF t = ".v2" THEN "V2" ELSE "V4"

\* ast::Type::maybe_vector
maybe_vector(prefix, scalar) ==
    IF prefix = <<>> THEN [tag |-> "Scalar", scalar |-> scalar]
    ELSE [tag |-> "Vector", prefix |-> prefix[1], scalar |-> scalar]

\* .ss of the st rules
st_ss ==
    {".global", ".local", ".param", ".param::func", ".shared", ".shared::cta",
     ".shared::cluster"}

\* .ss of the ld rules
ld_ss ==
    {".const", ".global", ".local", ".param", ".param::entry", ".param::func",
     ".shared", ".shared::cta", ".shared::cluster"}

\* the StateSpace variant a state-space token selects
StateSpaceOf(t) ==
    CASE t = ".const" -> "Const" [] t = ".global" -> "Global"
      [] t = ".local" -> "Local" [] t = ".param" -> "Param"
      [] t = ".param::entry" -> "ParamEntry" [] t = ".param::func" -> "ParamFunc"
      [] t = ".shared" -> "Shared" [] t = ".shared::cta" -> "SharedCta"
      [] t = ".shared::cluster" -> "SharedCluster"

level_eviction_priority ==
    {".L1::evict_normal", ".L1::evict_unchanged", ".L1::evict_first",
     ".L1::evict_last", ".L1::no_allocate"}

level_cache_hint == {".L2::cache_hint"}

level_prefetch_size == {".L2::64B", ".L2::128B", ".L2::256B"}

\* .cop of the st rules
st_cop == {".wb", ".cg", ".cs", ".wt"}

\* .cop of the ld rules
ld_cop == {".ca", ".cg", ".cs", ".lu", ".cv"}

scope == {".cta", ".cluster", ".gpu", ".sys"}

\* the MemScope variant a scope token selects
MemScopeOf(t) ==
    CASE t = ".cta" -> "Cta" [] t = ".cluster" -> "Cluster"
      [] t = ".gpu" -> "Gpu" [] t = ".sys" -> "Sys"

vec == {".v2", ".v4"}

\* .type of the ld and st rules
ld_st_type ==
    {".b8", ".b16", ".b32", ".b64", ".b128", ".u8", ".u16", ".u32", ".u64",
     ".s8", ".s16", ".s32", ".s64", ".f32", ".f64"}

\* .type of the mov rule
mov_type ==
    {".pred", ".b16", ".b32", ".b64", ".u16", ".u32", ".u64", ".s16", ".s32",
     ".s64", ".f32", ".f64"}

\* .type of the add.type rule with .s32 among its types
add_type_with_s32 ==
    {".u16", ".u32", ".u64", ".s16", ".s64", ".u16x2", ".s16x2", ".s32"}

\* .type of the add.type rule
add_type == {".u16", ".u32", ".u64", ".s16", ".s64", ".u16x2", ".s16x2"}

\* .rnd of the f32 / f64 add rules
rnd == {".rn", ".rz", ".rm", ".rp"}

\* .rnd of the half-precision add rules
rnd_half == {".rn"}

\* impl From<RawStCacheOperator> for ast::StCacheOperator
StCacheOperator_from(value) ==
    CASE value = ".wb" -> "Writeback" [] value = ".cg" -> "L2Only"
      [] value = ".cs" -> "Streaming" [] value = ".wt" -> "Writethrough"

\* impl From<RawLdCacheOperator> for ast::LdCacheOperator
LdCacheOperator_from(value) ==
    CASE value = ".ca" -> "Cached" [] value = ".cg" -> "L2Only"
      [] value = ".cs" -> "Streaming" [] value = ".lu" -> "LastUse"
      [] value = ".cv" -> "Uncached"

\* impl From<RawLdStQualifier> for ast::LdStQualifier
LdStQualifier_from(value) ==
    IF value = ".weak" THEN [tag |-> "Weak"] ELSE [tag |-> "Volatile"]

\* impl From<RawFloatRounding> for ast::RoundingMode
RoundingMode_from(value) ==
    CASE value = ".rn" -> "NearestEven" [] value = ".rz" -> "Zero"
      [] value = ".rm" -> "NegativeInf" [] value = ".rp" -> "PositiveInf"

\* Option::unwrap_or
unwrap_or(o, default) == IF o = <<>> THEN default ELSE o[1]

\* Option::map of the variant a bound token selects
OptStateSpace(o) == IF o = <<>> THEN <<>> ELSE <<StateSpaceOf(o[1])>>

OptVectorPrefix(o) == IF o = <<>> THEN <<>> ELSE <<VectorPrefixOf(o[1])>>

OptRoundingMode(o) == IF o = <<>> THEN <<>> ELSE <<RoundingMode_from(o[1])>>

\* if cond { state.push(PtxError::Todo) }
push_todo_if(cond, state) == IF cond THEN Append(state, "Todo") ELSE state

Relaxed(s) == [tag |-> "Relaxed", scope |-> s]

Release(s) == [tag |-> "Release", scope |-> s]

Acquire(s) == [tag |-> "Acquire", scope |-> s]

St(qualifier, state_space, caching, typ, o) ==
    [tag |-> "St",
     data |-> [qualifier |-> qualifier, state_space |-> state_space,
               caching |-> caching, typ |-> typ],
     arguments |-> [src1 |-> o.args[1], src2 |-> o.args[2]]]

Ld(qualifier, state_space, caching, typ, o) ==
    [tag |-> "Ld",
     data |-> [qualifier |-> qualifier, state_space |-> state_space,
               caching |-> caching, typ |-> typ, non_coherent |-> FALSE],
     arguments |-> [dst |-> o.args[1], src |-> o.args[2]]]

Add(data, o) ==
    [tag |-> "Add", data |-> data,
     arguments |-> [dst |-> o.args[1], src1 |-> o.args[2], src2 |-> o.args[3]]]

ArithInteger(type_, saturate) ==
    [tag |-> "Integer", type_ |-> type_, saturate |-> saturate]

ArithFloat(type_, rounding, flush_to_zero, saturate) ==
    [tag |-> "Float", type_ |-> type_, rounding |-> rounding,
     flush_to_zero |-> flush_to_zero, saturate |-> saturate]

\* The bodies of the rules: b binds each modifier of the rule to the token
\* matched for it (<<>> when an optional one is absent), o holds the operands.

\* mov{.vec}.type d, a
mov_body(b, o, state) ==
    [state |-> state,
     instr |-> [tag |-> "Mov",
                data |-> maybe_vector(OptVectorPrefix(b["vec"]), ScalarTypeOf[b["type_"][1]]),
                arguments |-> [dst |-> o.args[1], src |-> o.args[2]]]]

\* the st{.weak} body with a store that defaults to write-through
st_weak_body_wt(b, o, state) ==
    [state |-> push_todo_if(b["level_eviction_priority"] # <<>>
                            \/ b["level_cache_hint"] # <<>>
                            \/ o.cache_policy # <<>>, state),
     instr |-> St(LdStQualifier_from(unwrap_or(b["weak"], ".weak")),
                  unwrap_or(OptStateSpace(b["ss"]), "Generic"),
                  StCacheOperator_from(unwrap_or(b["cop"], ".wt")),
                  maybe_vector(OptVectorPrefix(b["vec"]), ScalarTypeOf[b["type_"][1]]), o)]

\* st{.weak}{.ss}{.cop}{.level::eviction_priority}{.level::cache_hint}{.vec}.type
st_weak_body(b, o, state) ==
    [state |-> push_todo_if(b["level_eviction_priority"] # <<>>
                            \/ b["level_cache_hint"] # <<>>
                            \/ o.cache_policy # <<>>, state),
     instr |-> St(LdStQualifier_from(unwrap_or(b["weak"], ".weak")),
                  unwrap_or(OptStateSpace(b["ss"]), "Generic"),
                  StCacheOperator_from(unwrap_or(b["cop"], ".wb")),
                  maybe_vector(OptVectorPrefix(b["vec"]), ScalarTypeOf[b["type_"][1]]), o)]

\* st.volatile{.ss}{.vec}.type
st_volatile_body(b, o, state) ==
    [state |-> state,
     instr |-> St(LdStQualifier_from(b["volatile"][1]),
                  unwrap_or(OptStateSpace(b["ss"]), "Generic"),
                  "Writeback",
                  maybe_vector(OptVectorPrefix(b["vec"]), ScalarTypeOf[b["type_"][1]]), o)]

\* the st.relaxed body with one Todo for each unsupported part
st_relaxed_body_each(b, o, state) ==
    [state |-> push_todo_if(o.cache_policy # <<>>,
                  push_todo_if(b["level_cache_hint"] # <<>>,
                      push_todo_if(b["level_eviction_priority"] # <<>>, state))),
     instr |-> St(Relaxed(MemScopeOf(b["scope"][1])),
                  unwrap_or(OptStateSpace(b["ss"]), "Generic"),
                  "Writeback",
                  maybe_vector(OptVectorPrefix(b["vec"]), ScalarTypeOf[b["type_"][1]]), o)]

\* st.relaxed.scope{.ss}{.level::eviction_priority}{.level::cache_hint}{.vec}.type
st_relaxed_body(b, o, state) ==
    [state |-> push_todo_if(b["level_eviction_priority"] # <<>>
                            \/ b["level_cache_hint"] # <<>>
                            \/ o.cache_policy # <<>>, state),
     instr |-> St(Relaxed(MemScopeOf(b["scope"][1])),
                  unwrap_or(OptStateSpace(b["ss"]), "Generic"),
                  "Writeback",
                  maybe_vector(OptVectorPrefix(b["vec"]), ScalarTypeOf[b["type_"][1]]), o)]

\* st.release.scope{.ss}{.level::eviction_priority}{.level::cache_hint}{.vec}.type
st_release_body(b, o, state) ==
    [state |-> push_todo_if(b["level_eviction_priority"] # <<>>
                            \/ b["level_cache_hint"] # <<>>
                            \/ o.cache_policy # <<>>, state),
     instr |-> St(Release(MemScopeOf(b["scope"][1])),
                  unwrap_or(OptStateSpace(b["ss"]), "Generic"),
                  "Writeback",
                  maybe_vector(OptVectorPrefix(b["vec"]), ScalarTypeOf[b["type_"][1]]), o)]

\* st.mmio.relaxed.sys{.global}.type
st_mmio_body(b, o, state) ==
    [state |-> Append(state, "Todo"),
     instr |-> St(Relaxed("Sys"),
                  unwrap_or(OptStateSpace(b["global"]), "Generic"),
                  "Writeback",
                  maybe_vector(<<>>, ScalarTypeOf[b["type_"][1]]), o)]

\* ld{.weak}{.ss}{.cop}{.level::eviction_priority}{.level::cache_hint}
\*   {.level::prefetch_size}{.vec}.type
ld_weak_body(b, o, state) ==
    [state |-> push_todo_if(b["level_eviction_priority"] # <<>>
                            \/ b["level_cache_hint"] # <<>>
                            \/ b["level_prefetch_size"] # <<>>
                            \/ o.unified
                            \/ o.cache_policy # <<>>, state),
     instr |-> Ld(LdStQualifier_from(unwrap_or(b["weak"], ".weak")),
                  unwrap_or(OptStateSpace(b["ss"]), "Generic"),
                  LdCacheOperator_from(unwrap_or(b["cop"], ".ca")),
                  maybe_vector(OptVectorPrefix(b["vec"]), ScalarTypeOf[b["type_"][1]]), o)]

\* ld.volatile{.ss}{.level::prefetch_size}{.vec}.type
ld_volatile_body(b, o, state) ==
    [state |-> push_todo_if(b["level_prefetch_size"] # <<>>, state),
     instr |-> Ld(LdStQualifier_from(b["volatile"][1]),
                  unwrap_or(OptStateSpace(b["ss"]), "Generic"),
                  "Cached",
                  maybe_vector(OptVectorPrefix(b["vec"]), ScalarTypeOf[b["type_"][1]]), o)]

\* ld.relaxed.scope{.ss}{.level::eviction_priority}{.level::cache_hint}
\*   {.level::prefetch_size}{.vec}.type
ld_relaxed_body(b, o, state) ==
    [state |-> push_todo_if(b["level_eviction_priority"] # <<>>
                            \/ b["level_cache_hint"] # <<>>
                            \/ b["level_prefetch_size"] # <<>>
                            \/ o.cache_policy # <<>>, state),
     instr |-> Ld(Relaxed(MemScopeOf(b["scope"][1])),
                  unwrap_or(OptStateSpace(b["ss"]), "Generic"),
                  "Cached",
                  maybe_vector(OptVectorPrefix(b["vec"]), ScalarTypeOf[b["type_"][1]]), o)]

\* ld.acquire.scope{.ss}{.level::eviction_priority}{.level::cache_hint}
\*   {.level::prefetch_size}{.vec}.type
ld_acquire_body(b, o, state) ==
    [state |-> push_todo_if(b["level_eviction_priority"] # <<>>
                            \/ b["level_cache_hint"] # <<>>
                            \/ b["level_prefetch_size"] # <<>>
                            \/ o.cache_policy # <<>>, state),
     instr |-> Ld(Acquire(MemScopeOf(b["scope"][1])),
                  unwrap_or(OptStateSpace(b["ss"]), "Generic"),
                  "Cached",
                  maybe_vector(OptVectorPrefix(b["vec"]), ScalarTypeOf[b["type_"][1]]), o)]

\* ld.mmio.relaxed.sys{.global}.type
ld_mmio_body(b, o, state) ==
    [state |-> Append(state, "Todo"),
     instr |-> Ld(Relaxed("Sys"),
                  unwrap_or(OptStateSpace(b["global"]), "Generic"),
                  "Cached",
                  maybe_vector(<<>>, ScalarTypeOf[b["type_"][1]]), o)]

\* add.type d, a, b
add_type_body(b, o, state) ==
    [state |-> state,
     instr |-> Add(ArithInteger(ScalarTypeOf[b["type_"][1]], FALSE), o)]

\* the add{.sat}.s32 body that never saturates
add_s32_body_nosat(b, o, state) ==
    [state |-> state,
     instr |-> Add(ArithInteger(ScalarTypeOf[b["s32"][1]], FALSE), o)]

\* add{.sat}.s32 d, a, b
add_s32_body(b, o, state) ==
    [state |-> state,
     instr |-> Add(ArithInteger(ScalarTypeOf[b["s32"][1]], b["sat"] # <<>>), o)]

\* add{.rnd}{.ftz}{.sat}.f32 d, a, b
add_f32_body(b, o, state) ==
    [state |-> state,
     instr |-> Add(ArithFloat(ScalarTypeOf[b["f32"][1]], OptRoundingMode(b["rnd"]),
                              <<b["ftz"] # <<>>>>, b["sat"] # <<>>), o)]

\* add{.rnd}.f64 d, a, b
add_f64_body(b, o, state) ==
    [state |-> state,
     instr |-> Add(ArithFloat(ScalarTypeOf[b["f64"][1]], OptRoundingMode(b["rnd"]),
                              <<>>, FALSE), o)]

\* add{.rnd}{.ftz}{.sat}.f16 d, a, b
add_f16_body(b, o, state) ==
    [state |-> state,
     instr |-> Add(ArithFloat(ScalarTypeOf[b["f16"][1]], OptRoundingMode(b["rnd"]),
                              <<b["ftz"] # <<>>>>, b["sat"] # <<>>), o)]

\* add{.rnd}{.ftz}{.sat}.f16x2 d, a, b
add_f16x2_body(b, o, state) ==
    [state |-> state,
     instr |-> Add(ArithFloat(ScalarTypeOf[b["f16x2"][1]], OptRoundingMode(b["rnd"]),
                              <<b["ftz"] # <<>>>>, b["sat"] # <<>>), o)]

\* add{.rnd}.bf16 d, a, b
add_bf16_body(b, o, state) ==
    [state |-> state,
     instr |-> Add(ArithFloat(ScalarTypeOf[b["bf16"][1]], OptRoundingMode(b["rnd"]),
                              <<>>, FALSE), o)]

\* add{.rnd}.bf16x2 d, a, b
add_bf16x2_body(b, o, state) ==
    [state |-> state,
     instr |-> Add(ArithFloat(ScalarTypeOf[b["bf16x2"][1]], OptRoundingMode(b["rnd"]),
                              <<>>, FALSE), o)]

\* the ret body that is always uniform
ret_body_uniform(b, o, state) ==
    [state |-> state, instr |-> [tag |-> "Ret", data |-> [uniform |-> TRUE]]]

\* ret{.uni}
ret_body(b, o, state) ==
    [state |-> state, instr |-> [tag |-> "Ret", data |-> [uniform |-> b["uni"] # <<>>]]]

\* One modifier position of a rule: its binding name, whether it is braced,
\* and the tokens that satisfy it.
Slot(name, optional, toks) == [name |-> name, optional |-> optional, toks |-> toks]

\* One rule line: opcode, modifier positions in the written order, operand
\* skeleton ("plain" for x, "mem" for [x], "mem_unified" for [x]{.unified}),
\* and whether {, cache_policy} ends it.
Rule(id, opcode, mods, args, cache_policy) ==
    [id |-> id, opcode |-> opcode, mods |-> mods, args |-> args,
     cache_policy |-> cache_policy]

Evp == Slot("level_eviction_priority", TRUE, level_eviction_priority)

Hint == Slot("level_cache_hint", TRUE, level_cache_hint)

Prefetch == Slot("level_prefetch_size", TRUE, level_prefetch_size)

Vec == Slot("vec", TRUE, vec)

LdStType == Slot("type_", FALSE, ld_st_type)

Rnd == Slot("rnd", TRUE, rnd)

RndHalf == Slot("rnd", TRUE, rnd_half)

Ftz == Slot("ftz", TRUE, {".ftz"})

Sat == Slot("sat", TRUE, {".sat"})

StArgs == <<"mem", "plain">>

LdArgs == <<"plain", "mem">>

AddArgs == <<"plain", "plain", "plain">>

mov_opcode == <<"m", "o", "v">>

st_opcode == <<"s", "t">>

ld_opcode == <<"l", "d">>

add_opcode == <<"a", "d", "d">>

ret_opcode == <<"r", "e", "t">>

\* The rules in the order they are written.
Rules ==
    << Rule("mov", mov_opcode, <<Vec, Slot("type_", FALSE, mov_type)>>, <<"plain", "plain">>, FALSE),
       Rule("st_weak", st_opcode,
            <<Slot("weak", TRUE, {".weak"}), Slot("ss", TRUE, st_ss),
              Slot("cop", TRUE, st_cop), Evp, Hint, Vec, LdStType>>, StArgs, TRUE),
       Rule("st_volatile", st_opcode,
            <<Slot("volatile", FALSE, {".volatile"}), Slot("ss", TRUE, st_ss), Vec,
              LdStType>>, StArgs, FALSE),
       Rule("st_relaxed", st_opcode,
            <<Slot("relaxed", FALSE, {".relaxed"}), Slot("scope", FALSE, scope),
              Slot("ss", TRUE, st_ss), Evp, Hint, Vec, LdStType>>, StArgs, TRUE),
       Rule("st_release", st_opcode,
            <<Slot("release", FALSE, {".release"}), Slot("scope", FALSE, scope),
              Slot("ss", TRUE, st_ss), Evp, Hint, Vec, LdStType>>, StArgs, TRUE),
       Rule("st_mmio", st_opcode,
            <<Slot("mmio", FALSE, {".mmio"}), Slot("relaxed", FALSE, {".relaxed"}),
              Slot("sys", FALSE, {".sys"}), Slot("global", TRUE, {".global"}),
              LdStType>>, StArgs, FALSE),
       Rule("ld_weak", ld_opcode,
            <<Slot("weak", TRUE, {".weak"}), Slot("ss", TRUE, ld_ss),
              Slot("cop", TRUE, ld_cop), Evp, Hint, Prefetch, Vec, LdStType>>,
            <<"plain", "mem_unified">>, TRUE),
       Rule("ld_volatile", ld_opcode,
            <<Slot("volatile", FALSE, {".volatile"}), Slot("ss", TRUE, ld_ss),
              Prefetch, Vec, LdStType>>, LdArgs, FALSE),
       Rule("ld_relaxed", ld_opcode,
            <<Slot("relaxed", FALSE, {".relaxed"}), Slot("scope", FALSE, scope),
              Slot("ss", TRUE, ld_ss), Evp, Hint, Prefetch, Vec, LdStType>>,
            LdArgs, TRUE),
       Rule("ld_acquire", ld_opcode,
            <<Slot("acquire", FALSE, {".acquire"}), Slot("scope", FALSE, scope),
              Slot("ss", TRUE, ld_ss), Evp, Hint, Prefetch, Vec, LdStType>>,
            LdArgs, TRUE),
       Rule("ld_mmio", ld_opcode,
            <<Slot("mmio", FALSE, {".mmio"}), Slot("relaxed", FALSE, {".relaxed"}),
              Slot("sys", FALSE, {".sys"}), Slot("global", TRUE, {".global"}),
              LdStType>>, LdArgs, FALSE),
       Rule("add_type", add_opcode, <<Slot("type_", FALSE, add_type)>>, AddArgs, FALSE),
       Rule("add_s32", add_opcode, <<Sat, Slot("s32", FALSE, {".s32"})>>, AddArgs, FALSE),
       Rule("add_f32", add_opcode, <<Rnd, Ftz, Sat, Slot("f32", FALSE, {".f32"})>>, AddArgs, FALSE),
       Rule("add_f64", add_opcode, <<Rnd, Slot("f64", FALSE, {".f64"})>>, AddArgs, FALSE),
       Rule("add_f16", add_opcode, <<RndHalf, Ftz, Sat, Slot("f16", FALSE, {".f16"})>>, AddArgs, FALSE),
       Rule("add_f16x2", add_opcode, <<RndHalf, Ftz, Sat, Slot("f16x2", FALSE, {".f16x2"})>>,
            AddArgs, FALSE),
       Rule("add_bf16", add_opcode, <<RndHalf, Slot("bf16", FALSE, {".bf16"})>>, AddArgs, FALSE),
       Rule("add_bf16x2", add_opcode, <<RndHalf, Slot("bf16x2", FALSE, {".bf16x2"})>>,
            AddArgs, FALSE),
       Rule("ret", ret_opcode, <<Slot("uni", TRUE, {".uni"})>>, <<>>, FALSE) >>

\* the body of the rule named id
Body(id, b, o, state) ==
    CASE id = "mov" -> mov_body(b, o, state)
      [] id = "st_weak" -> st_weak_body(b, o, state)
      [] id = "st_volatile" -> st_volatile_body(b, o, state)
      [] id = "st_relaxed" -> st_relaxed_body(b, o, state)
      [] id = "st_release" -> st_release_body(b, o, state)
      [] id = "st_mmio" -> st_mmio_body(b, o, state)
      [] id = "ld_weak" -> ld_weak_body(b, o, state)
      [] id = "ld_volatile" -> ld_volatile_body(b, o, state)
      [] id = "ld_relaxed" -> ld_relaxed_body(b, o, state)
      [] id = "ld_acquire" -> ld_acquire_body(b, o, state)
      [] id = "ld_mmio" -> ld_mmio_body(b, o, state)
      [] id = "add_type" -> add_type_body(b, o, state)
      [] id = "add_s32" -> add_s32_body(b, o, state)
      [] id = "add_f32" -> add_f32_body(b, o, state)
      [] id = "add_f64" -> add_f64_body(b, o, state)
      [] id = "add_f16" -> add_f16_body(b, o, state)
      [] id = "add_f16x2" -> add_f16x2_body(b, o, state)
      [] id = "add_bf16" -> add_bf16_body(b, o, state)
      [] id = "add_bf16x2" -> add_bf16x2_body(b, o, state)
      [] id = "ret" -> ret_body(b, o, state)

\* ------------------------------------------------- generated opcode parser
\* What derive_parser! emits for the rule table: variant selection, modifier
\* binding and positional operand parsing.

\* every token some rule names as a modifier
ModifierTokens == UNION {{Rules[i].mods[j].toks : j \in DOMAIN Rules[i].mods} : i \in DOMAIN Rules}

AllModifierTokens == UNION ModifierTokens

\* the dot-tokens between the opcode and the first operand
RECURSIVE ModifierRun(_)
ModifierRun(input) ==
    IF input # <<>> /\ Head(input).k \in AllModifierTokens
    THEN <<Head(input).k>> \o ModifierRun(Tail(input))
    ELSE <<>>

\* Walks the modifier positions of a rule along the tokens: a position takes
\* the next token when that token satisfies it, an optional position may be
\* skipped, and every token has to be taken.
RECURSIVE MatchMods(_, _, _, _, _)
MatchMods(slots, i, mods, j, b) ==
    IF i > Len(slots) THEN [ok |-> j > Len(mods), b |-> b]
    ELSE IF j <= Len(mods) /\ mods[j] \in slots[i].toks
    THEN MatchMods(slots, i + 1, mods, j + 1, [b EXCEPT ![slots[i].name] = <<mods[j]>>])
    ELSE IF slots[i].optional THEN MatchMods(slots, i + 1, mods, j, b)
    ELSE [ok |-> FALSE, b |-> b]

Unbound(rule) == [n \in {rule.mods[i].name : i \in DOMAIN rule.mods} |-> <<>>]

Matches(rule, mods) == MatchMods(rule.mods, 1, mods, 1, Unbound(rule))

\* the variants of any opcode whose modifiers match
Candidates_any_opcode(opcode, mods) ==
    {i \in DOMAIN Rules : Matches(Rules[i], mods).ok}

\* the variants of the opcode whose modifiers match
Candidates(opcode, mods) ==
    {i \in DOMAIN Rules : Rules[i].opcode = opcode /\ Matches(Rules[i], mods).ok}

\* the number of mandatory modifier positions of a rule
Required(i) == Cardinality({j \in DOMAIN Rules[i].mods : ~Rules[i].mods[j].optional})

\* the most specific candidate, the earliest written among equals
Select(cands) ==
    CHOOSE i \in cands : \A j \in cands :
        Required(i) > Required(j) \/ (Required(i) = Required(j) /\ i <= j)

\* one operand position: x, [x] or [x]{.unified}
Operand(form, s) ==
    IF form = "plain"
    THEN Bind(ParsedOperand_parse(s), LAMBDA x : Map(x, [v |-> x.val, unified |-> FALSE]))
    ELSE Bind(Tok(s, "LBracket"), LAMBDA o :
         Bind(ParsedOperand_parse(After(o)), LAMBDA a :
         Bind(Tok(After(a), "RBracket"), LAMBDA c :
           IF form = "mem" THEN Map(c, [v |-> a.val, unified |-> FALSE])
           ELSE Bind(Opt(After(c), Tok(After(c), ".unified")), LAMBDA u :
                  Map(u, [v |-> a.val, unified |-> u.val # <<>>])))))

\* the operand positions in order, a comma between two of them
RECURSIVE Operands(_, _, _, _)
Operands(forms, i, s, acc) ==
    IF i > Len(forms) THEN Ok(s, acc)
    ELSE Bind(IF i = 1 THEN Ok(s, <<>>) ELSE Tok(s, "Comma"), LAMBDA sep :
         Bind(Operand(forms[i], After(sep)), LAMBDA x :
           Operands(forms, i + 1, After(x),
                    [args |-> Append(acc.args, x.val.v),
                     unified |-> acc.unified \/ x.val.unified])))

\* {, cache_policy}
cache_policy_operand(s) ==
    Bind(Tok(s, "Comma"), LAMBDA c : ParsedOperand_parse(After(c)))

\* the operand list of a rule, with {, cache_policy} when the rule has it
ParseOperands(rule, s) ==
    Bind(Operands(rule.args, 1, s, [args |-> <<>>, unified |-> FALSE]), LAMBDA xs :
      IF ~rule.cache_policy
      THEN Map(xs, [args |-> xs.val.args, unified |-> xs.val.unified,
                    cache_policy |-> <<>>])
      ELSE Bind(Opt(After(xs), cache_policy_operand(After(xs))), LAMBDA q :
             Map(q, [args |-> xs.val.args, unified |-> xs.val.unified,
                     cache_policy |-> q.val])))

\* the body of the chosen variant, run on its bound modifiers and operands
Finish(o, r) == [ok |-> TRUE, input |-> o.input, state |-> r.state, val |-> r.instr]

RunBody(rule, b, o) == Finish(o, Body(rule.id, b, o.val, o.state))

\* the variant chosen for the modifiers mods, run on what follows them
RunVariant(rule, mods, rest) ==
    Bind(ParseOperands(rule, rest), LAMBDA o : RunBody(rule, Matches(rule, mods).b, o))

\* the opcode token op was read: its variants are tried on the modifiers
AfterOpcode(op, mods) ==
    IF Candidates(op.val.s, mods) = {} THEN Fail(After(op))
    ELSE RunVariant(Rules[Select(Candidates(op.val.s, mods))], mods,
                    [input |-> SubSeq(op.input, Len(mods) + 1, Len(op.input)),
                     state |-> op.state])

\* parse_instruction: the opcode, the variant, its modifiers, its operands,
\* then the body of the variant
parse_instruction(s) ==
    Bind(any(s), LAMBDA op :
      IF op.val.k # "Opcode" THEN Fail(s)
      ELSE AfterOpcode(op, ModifierRun(op.input)))

\* ----------------------------------------------------------------- grammar

RECURSIVE DigitRun(_, _)
\* digit0 from position i of the text s: how many decimal digits follow
DigitRun(s, i) ==
    IF i <= Len(s) /\ s[i] \in DecDigits THEN 1 + DigitRun(s, i + 1) ELSE 0

\* dec_uint that takes every leading digit, leading zeros included
dec_uint_leading_zeros(s) ==
    LET n == DigitRun(s, 1)
        p == FromStrRadix(SubSeq(s, 1, n), 10, 32)
    IN IF n = 0 \/ ~p.isOk THEN [ok |-> FALSE, rest |-> s, v |-> Zero]
       ELSE [ok |-> TRUE, rest |-> SubSeq(s, n + 1, Len(s)), v |-> p.v]

\* winnow::ascii::dec_uint into a u32, on the text s: it recognises
\* [1-9][0-9]* or else the single digit 0, and fails when the digits overflow.
dec_uint(s) ==
    LET n == IF s = <<>> THEN 0
             ELSE IF s[1] \in DecDigits \ {"0"} THEN 1 + DigitRun(s, 2)
             ELSE IF s[1] = "0" THEN 1
             ELSE 0
        p == FromStrRadix(SubSeq(s, 1, n), 10, 32)
    IN IF n = 0 \/ ~p.isOk THEN [ok |-> FALSE, rest |-> s, v |-> Zero]
       ELSE [ok |-> TRUE, rest |-> SubSeq(s, n + 1, Len(s)), v |-> p.v]

\* fn shader_model, on the text of the identifier
shader_model(s) ==
    IF Len(s) < 3 \/ SubSeq(s, 1, 3) # <<"s", "m", "_">>
    THEN [ok |-> FALSE, v |-> <<>>]
    ELSE LET d == dec_uint(SubSeq(s, 4, Len(s)))
             arch_variant == IF d.rest # <<>> /\ d.rest[1] \in LowerLetters
                             THEN <<d.rest[1]>> ELSE <<>>
             rest == IF arch_variant = <<>> THEN d.rest ELSE Tail(d.rest)
         IN IF d.ok /\ rest = <<>>
            THEN [ok |-> TRUE, v |-> <<d.v, arch_variant>>]
            ELSE [ok |-> FALSE, v |-> <<>>]

\* ident.and_then(shader_model): the word is taken when the inner parser
\* accepts its text
ident_shader_model(s, i) ==
    IF shader_model(i.val).ok THEN Map(i, shader_model(i.val).v) ELSE Fail(s)

\* fn target
target(st) ==
    Bind(Tok(st, ".target"), LAMBDA t :
    Bind(ident(After(t)), LAMBDA i : ident_shader_model(After(t), i)))

\* Parser::parse without the end-of-input requirement
parse_any_rest(r) == r

\* winnow's Parser::parse applied to the result r of the parser: the parse
\* must end at the end of the input.
parse(r) == IF r.ok /\ r.input # <<>> THEN Fail(After(r)) ELSE r

\* fn u8_literal
u8_literal(x, s) ==
    Bind(u8(s), LAMBDA r : IF r.val = Small(x) THEN Map(r, <<>>) ELSE Fail(ResetTo(s, r)))

\* fn address_size
address_size(s) ==
    Bind(Tok(s, ".address_size"), LAMBDA t : u8_literal(64, After(t)))

\* fn version
version(s) ==
    Bind(Tok(s, ".version"), LAMBDA t :
    Bind(u8(After(t)), LAMBDA major :
    Bind(Tok(After(major), "Dot"), LAMBDA d :
    Bind(u8(After(d)), LAMBDA minor :
      Map(minor, <<major.val, minor.val>>)))))

\* fn scalar_type
scalar_type(s) ==
    Bind(any(s), LAMBDA r :
      IF r.val.k \in DOMAIN ScalarTypeOf THEN Map(r, ScalarTypeOf[r.val.k]) ELSE Fail(s))

\* opt(alt((Token::DotV2.value(V2), Token::DotV4.value(V4))))
vector_prefix(s) ==
    OrElse(s, Bind(Tok(s, ".v2"), LAMBDA t : Map(t, <<"V2">>)), LAMBDA s1 :
    OrElse(s1, Bind(Tok(s1, ".v4"), LAMBDA t : Map(t, <<"V4">>)), LAMBDA s2 :
      Ok(s2, <<>>)))

\* fn scalar_vector_type
scalar_vector_type(s) ==
    Bind(vector_prefix(s), LAMBDA prefix :
    Bind(scalar_type(After(prefix)), LAMBDA scalar :
      Map(scalar, maybe_vector(prefix.val, scalar.val))))

\* fn align
align(s) ==
    Bind(Tok(s, ".align"), LAMBDA t : u32(After(t)))

\* fn variable_scalar_or_vector
variable_scalar_or_vector(state_space, s) ==
    Bind(Opt(s, align(s)), LAMBDA a :
    Bind(scalar_vector_type(After(a)), LAMBDA v_type :
    Bind(ident(After(v_type)), LAMBDA name :
      Map(name, [align |-> a.val, v_type |-> v_type.val,
                 state_space |-> state_space, name |-> name.val,
                 array_init |-> <<>>]))))

\* the StateSpace that starts a variable of a statement
VariableSpace ==
    [k \in {".reg", ".local", ".param", ".shared"} |->
        CASE k = ".reg" -> "Reg" [] k = ".local" -> "Local"
          [] k = ".param" -> "Param" [] k = ".shared" -> "Shared"]

\* fn variable
variable(s) ==
    Bind(any(s), LAMBDA t :
      IF t.val.k \in DOMAIN VariableSpace
      THEN variable_scalar_or_vector(VariableSpace[t.val.k], After(t))
      ELSE Fail(After(t)))

\* fn kernel_input in a grammar where a kernel parameter may also be a
\* register
kernel_input_any_space(s) ==
    Bind(any(s), LAMBDA t :
      IF t.val.k \in {".param", ".reg"}
      THEN variable_scalar_or_vector(VariableSpace[t.val.k], After(t))
      ELSE Fail(After(t)))

\* fn kernel_input
kernel_input(s) ==
    Bind(Tok(s, ".param"), LAMBDA t : variable_scalar_or_vector("Param", After(t)))

\* fn fn_input
fn_input(s) ==
    Bind(any(s), LAMBDA t :
      IF t.val.k \in {".param", ".reg"}
      THEN variable_scalar_or_vector(VariableSpace[t.val.k], After(t))
      ELSE Fail(After(t)))

\* the element parser handed to separated
Element(which, s) ==
    CASE which = "u32" -> u32(s)
      [] which = "fn_input" -> fn_input(s)
      [] which = "kernel_input" -> kernel_input(s)

\* one more "separator element" of separated
separated_more(which, s) ==
    Bind(Tok(s, "Comma"), LAMBDA sep : Element(which, After(sep)))

\* winnow's separated after its first element: the loop "for index in 1..max"
\* (without end when max is <<>>) over separator and element; a failure of
\* either goes back to before the separator and ends the list.
RECURSIVE separated_rest(_, _, _, _, _, _)
RECURSIVE separated_next(_, _, _, _, _, _, _)
separated_rest(which, s, index, min, max, acc) ==
    IF max # <<>> /\ index >= max[1] THEN Ok(s, acc)
    ELSE separated_next(which, s, index, min, max, acc, separated_more(which, s))

\* x is the outcome of "separator element" run at s
separated_next(which, s, index, min, max, acc, x) ==
    IF x.ok
    THEN separated_rest(which, After(x), index + 1, min, max, Append(acc, x.val))
    ELSE IF index < min THEN x
    ELSE Ok(ResetTo(s, x), acc)

\* x is the outcome of the first element run at s
separated_first(which, s, min, max, x) ==
    IF x.ok THEN separated_rest(which, After(x), 1, min, max, <<x.val>>)
    ELSE IF min = 0 THEN Ok(ResetTo(s, x), <<>>)
    ELSE x

\* winnow::combinator::separated(min..=max, element, Token::Comma)
separated(which, s, min, max) == separated_first(which, s, min, max, Element(which, s))

\* fn fn_arguments
fn_arguments(s) ==
    Bind(Tok(s, "LParen"), LAMBDA o :
    Bind(separated("fn_input", After(o), 0, <<>>), LAMBDA xs :
    Bind(Tok(After(xs), "RParen"), LAMBDA c : Map(c, xs.val))))

\* fn kernel_arguments
kernel_arguments(s) ==
    Bind(Tok(s, "LParen"), LAMBDA o :
    Bind(separated("kernel_input", After(o), 0, <<>>), LAMBDA xs :
    Bind(Tok(After(xs), "RParen"), LAMBDA c : Map(c, xs.val))))

\* Tuple3AccumulateU32::initial
Tuple3AccumulateU32_initial == [index |-> 0, value |-> <<Small(1), Small(1), Small(1)>>]

\* Tuple3AccumulateU32::accumulate; index 3 is its unreachable!() arm
Tuple3AccumulateU32_accumulate(self, value) ==
    CASE self.index = 0 -> [index |-> 1, value |-> <<value, self.value[2], self.value[3]>>]
      [] self.index = 1 -> [index |-> 2, value |-> <<self.value[1], value, self.value[3]>>]
      [] self.index = 2 -> [index |-> 3, value |-> <<self.value[1], self.value[2], value>>]
      [] OTHER -> [index |-> 4, value |-> self.value]

RECURSIVE AccumulateAll(_, _, _)
AccumulateAll(self, values, i) ==
    IF i > Len(values) THEN self
    ELSE AccumulateAll(Tuple3AccumulateU32_accumulate(self, values[i]), values, i + 1)

\* the range 1..3 of tuple1to3_u32 as winnow takes it: the end of a
\* std::ops::Range is exclusive, so 1 to 2 occurrences
TupleRange == [start_inclusive |-> 1, end_inclusive |-> <<3 - 1>>]

\* fn tuple1to3_u32
tuple1to3_u32(s) ==
    Bind(separated("u32", s, TupleRange.start_inclusive, TupleRange.end_inclusive),
         LAMBDA r : Map(r, AccumulateAll(Tuple3AccumulateU32_initial, r.val, 1).value))

\* the TuningDirective variant of a tuning token
TuningOf ==
    [k \in {".maxnreg", ".maxntid", ".reqntid", ".minnctapersm"} |->
        CASE k = ".maxnreg" -> "MaxNReg" [] k = ".maxntid" -> "MaxNtid"
          [] k = ".reqntid" -> "ReqNtid" [] k = ".minnctapersm" -> "MinNCtaPerSm"]

\* fn tuning_directive
tuning_directive(s) ==
    Bind(any(s), LAMBDA t :
      IF t.val.k \in {".maxnreg", ".minnctapersm"}
      THEN Bind(u32(After(t)), LAMBDA n : Map(n, [tag |-> TuningOf[t.val.k], v |-> n.val]))
      ELSE IF t.val.k \in {".maxntid", ".reqntid"}
      THEN Bind(tuple1to3_u32(After(t)),
                LAMBDA xyz : Map(xyz, [tag |-> TuningOf[t.val.k], v |-> xyz.val]))
      ELSE Fail(After(t)))

\* the LinkingDirective of a linking token
LinkingOf ==
    [k \in {".extern", ".visible", ".weak"} |->
        CASE k = ".extern" -> "EXTERN" [] k = ".visible" -> "VISIBLE"
          [] k = ".weak" -> "WEAK"]

\* fn linking_directives
linking_directives(s) ==
    Bind(any(s), LAMBDA t :
      IF t.val.k \in DOMAIN LinkingOf THEN Map(t, LinkingOf[t.val.k]) ELSE Fail(After(t)))

MethodDeclaration(return_arguments, name, input_arguments) ==
    [return_arguments |-> return_arguments, name |-> name,
     input_arguments |-> input_arguments, shared_mem |-> <<>>]

\* fn method_declaration
method_declaration(s) ==
    Bind(any(s), LAMBDA t :
      IF t.val.k = ".entry"
      THEN Bind(ident(After(t)), LAMBDA name :
           Bind(kernel_arguments(After(name)), LAMBDA input_arguments :
             Map(input_arguments,
                 MethodDeclaration(<<>>, [tag |-> "Kernel", name |-> name.val],
                                   input_arguments.val))))
      ELSE IF t.val.k = ".func"
      THEN Bind(Opt(After(t), fn_arguments(After(t))), LAMBDA return_arguments :
           Bind(ident(After(return_arguments)), LAMBDA name :
           Bind(fn_arguments(After(name)), LAMBDA input_arguments :
             Map(input_arguments,
                 MethodDeclaration(unwrap_or(return_arguments.val, <<>>),
                                   [tag |-> "Func", name |-> name.val],
                                   input_arguments.val)))))
      ELSE Fail(After(t)))

\* fn ident_literal
ident_literal(text, s) ==
    Bind(any(s), LAMBDA r :
      IF r.val.k = "Ident" /\ r.val.s = text THEN Map(r, <<>>) ELSE Fail(s))

function_name == <<"f", "u", "n", "c", "t", "i", "o", "n", "_", "n", "a", "m", "e">>

inlined_at == <<"i", "n", "l", "i", "n", "e", "d", "_", "a", "t">>

\* (u32, u32, u32)
three_u32(s) ==
    Bind(u32(s), LAMBDA a : Bind(u32(After(a)), LAMBDA b : u32(After(b))))

\* (ident_literal("inlined_at"), u32, u32, u32)
inlined_at_chain(s) ==
    Bind(ident_literal(inlined_at, s), LAMBDA l : three_u32(After(l)))

\* the optional tail of debug_directive
debug_directive_tail(s) ==
    Bind(Tok(s, "Comma"), LAMBDA c :
    Bind(ident_literal(function_name, After(c)), LAMBDA f :
    Bind(ident(After(f)), LAMBDA n :
    Bind(any(After(n)), LAMBDA t :
      IF t.val.k = "Comma" THEN inlined_at_chain(After(t))
      ELSE IF t.val.k = "Plus"
      THEN Bind(u32(After(t)), LAMBDA off :
           Bind(Tok(After(off), "Comma"), LAMBDA c2 : inlined_at_chain(After(c2))))
      ELSE Fail(After(t))))))

\* fn debug_directive in a grammar where the whole .loc line may be left out
debug_directive_optional(s) ==
    Bind(Opt(s, Bind(Tok(s, ".loc"), LAMBDA t : three_u32(After(t)))), LAMBDA c :
    Bind(Opt(After(c), debug_directive_tail(After(c))), LAMBDA tail : Map(tail, <<>>)))

\* fn debug_directive
debug_directive(s) ==
    Bind(Tok(s, ".loc"), LAMBDA t :
    Bind(three_u32(After(t)), LAMBDA c :
    Bind(Opt(After(c), debug_directive_tail(After(c))), LAMBDA tail : Map(tail, <<>>))))

\* fn pragma
pragma(s) ==
    Bind(Tok(s, ".pragma"), LAMBDA t :
    Bind(Tok(After(t), "String"), LAMBDA x :
    Bind(Tok(After(x), "Semicolon"), LAMBDA e : Map(e, <<>>))))

\* fn label
label(s) ==
    Bind(ident(s), LAMBDA l :
    Bind(Tok(After(l), "Colon"), LAMBDA c : Map(c, [tag |-> "Label", name |-> l.val])))

\* delimited(Token::Lt, u32, Token::Gt)
variable_count(s) ==
    Bind(Tok(s, "Lt"), LAMBDA lt :
    Bind(u32(After(lt)), LAMBDA n :
    Bind(Tok(After(n), "Gt"), LAMBDA gt : Map(gt, n.val))))

\* fn multi_variable in a grammar where the count may also be written
\* without its closing ">"
multi_variable_open_count(s) ==
    Bind(variable(s), LAMBDA var :
    Bind(Opt(After(var), variable_count(After(var))), LAMBDA count :
    Bind(Opt(After(count), Bind(Tok(After(count), "Lt"), LAMBDA lt : u32(After(lt)))),
         LAMBDA open :
    Bind(Tok(After(open), "Semicolon"), LAMBDA e :
      Map(e, [tag |-> "Variable", var |-> var.val, count |-> count.val])))))

\* fn multi_variable
multi_variable(s) ==
    Bind(variable(s), LAMBDA var :
    Bind(Opt(After(var), variable_count(After(var))), LAMBDA count :
    Bind(Tok(After(count), "Semicolon"), LAMBDA e :
      Map(e, [tag |-> "Variable", var |-> var.val, count |-> count.val]))))

\* fn pred_at
pred_at(s) ==
    Bind(Tok(s, "At"), LAMBDA a :
    Bind(Opt(After(a), Tok(After(a), "Not")), LAMBDA not :
    Bind(ident(After(not)), LAMBDA l :
      Map(l, [not |-> not.val # <<>>, label |-> l.val]))))

\* fn predicated_instruction, the tuple (opt(pred_at), parse_instruction,
\* Token::Semicolon) one member after the other
predicated_instruction_map(p, i, e) ==
    IF e.ok THEN Map(e, [tag |-> "Instruction", pred |-> p.val, instr |-> i.val]) ELSE e

predicated_instruction_semicolon(p, i) ==
    IF i.ok THEN predicated_instruction_map(p, i, Tok(After(i), "Semicolon")) ELSE i

predicated_instruction_instruction(p) ==
    IF p.ok THEN predicated_instruction_semicolon(p, parse_instruction(After(p))) ELSE p

predicated_instruction(s) == predicated_instruction_instruction(Opt(s, pred_at(s)))

RECURSIVE statement(_)

\* winnow::combinator::repeat(0.., parser) after one run x of the parser at
\* s: it goes on when the run succeeded and consumed.
repeat_goes_on(s, x) == x.ok /\ Len(x.input) # Len(s.input)

\* repeat ends: back at the start of the failed run with what was collected,
\* or refusing a run that succeeded without consuming.
repeat_ends(s, acc, x) ==
    IF ~x.ok THEN Ok(ResetTo(s, x), acc) ELSE Fail(After(x))

\* the fold of repeat_without_none pushing the Some items to the front
RECURSIVE without_none_reversed(_, _)
without_none_reversed(items, i) ==
    IF i > Len(items) THEN <<>> ELSE without_none_reversed(items, i + 1) \o items[i]

\* the fold of repeat_without_none: only the Some items are pushed
RECURSIVE without_none(_, _)
without_none(items, i) ==
    IF i > Len(items) THEN <<>> ELSE items[i] \o without_none(items, i + 1)

\* the items of a repeat, folded by repeat_without_none
without_none_fold(r) == IF r.ok THEN Map(r, without_none(r.val, 1)) ELSE r

\* repeat(0.., tuning_directive)
RECURSIVE repeat_tuning_directive(_, _)
RECURSIVE repeat_tuning_directive_next(_, _, _)
repeat_tuning_directive(s, acc) ==
    repeat_tuning_directive_next(s, acc, tuning_directive(s))

repeat_tuning_directive_next(s, acc, x) ==
    IF repeat_goes_on(s, x) THEN repeat_tuning_directive(After(x), Append(acc, x.val))
    ELSE repeat_ends(s, acc, x)

\* repeat(0.., statement)
RECURSIVE repeat_statement(_, _)
RECURSIVE repeat_statement_next(_, _, _)
repeat_statement(s, acc) == repeat_statement_next(s, acc, statement(s))

repeat_statement_next(s, acc, x) ==
    IF repeat_goes_on(s, x) THEN repeat_statement(After(x), Append(acc, x.val))
    ELSE repeat_ends(s, acc, x)

\* fn repeat_without_none, of statement
repeat_without_none_statement(s) == without_none_fold(repeat_statement(s, <<>>))

\* a block after its statements: Token::RBrace
block_close(body, c) == IF c.ok THEN Map(c, body.val) ELSE c

\* a block after Token::LBrace: the statements, then Token::RBrace
block_statements(body) ==
    IF body.ok THEN block_close(body, Tok(After(body), "RBrace")) ELSE body

block_open(o) ==
    IF o.ok THEN block_statements(repeat_without_none_statement(After(o))) ELSE o

block_statement_map(b) == IF b.ok THEN Map(b, [tag |-> "Block", body |-> b.val]) ELSE b

\* fn block_statement
block_statement(s) == block_statement_map(block_open(Tok(s, "LBrace")))

\* x.map(Some)
Some(x) == IF x.ok THEN Map(x, <<x.val>>) ELSE x

\* x.map(|_| None)
None(x) == IF x.ok THEN Map(x, <<>>) ELSE x

\* fn statement, the alternatives of its alt one after the other: x is the
\* outcome of the alternative before, s where that one started
statement_block(s, x) ==
    IF x.ok THEN x ELSE Some(block_statement(ResetTo(s, x)))

statement_pragma(s, x) ==
    IF x.ok THEN x ELSE statement_block(ResetTo(s, x), None(pragma(ResetTo(s, x))))

statement_instruction(s, x) ==
    IF x.ok THEN x
    ELSE statement_pragma(ResetTo(s, x), Some(predicated_instruction(ResetTo(s, x))))

statement_variable(s, x) ==
    IF x.ok THEN x
    ELSE statement_instruction(ResetTo(s, x), Some(multi_variable(ResetTo(s, x))))

statement_debug(s, x) ==
    IF x.ok THEN x
    ELSE statement_variable(ResetTo(s, x), None(debug_directive(ResetTo(s, x))))

statement(s) == statement_debug(s, Some(label(s)))

\* fn function_body, after the token t its dispatch read
function_body_dispatch(t) ==
    IF ~t.ok THEN t
    ELSE IF t.val.k = "LBrace"
    THEN Some(block_statements(repeat_without_none_statement(After(t))))
    ELSE IF t.val.k = "Semicolon" THEN Map(t, <<>>)
    ELSE Fail(After(t))

function_body(s) == function_body_dispatch(any(s))

\* fn function, the tuple (linking_directives, method_declaration,
\* repeat(0.., tuning_directive), function_body) one member after the other
function_map(linking, func_directive, tuning, body) ==
    IF body.ok
    THEN Map(body, [linking |-> linking.val,
                    func |-> [func_directive |-> func_directive.val,
                              tuning |-> tuning.val, body |-> body.val]])
    ELSE body

function_function_body(linking, func_directive, tuning) ==
    IF tuning.ok
    THEN function_map(linking, func_directive, tuning, function_body(After(tuning)))
    ELSE tuning

function_tuning(linking, func_directive) ==
    IF func_directive.ok
    THEN function_function_body(linking, func_directive,
                                repeat_tuning_directive(After(func_directive), <<>>))
    ELSE func_directive

function_method_declaration(linking) ==
    IF linking.ok THEN function_tuning(linking, method_declaration(After(linking)))
    ELSE linking

function(s) == function_method_declaration(linking_directives(s))

directive_map(f) ==
    IF f.ok
    THEN Map(f, <<[tag |-> "Method", linking |-> f.val.linking, func |-> f.val.func]>>)
    ELSE f

\* fn directive
directive(s) == directive_map(function(s))

\* repeat(0.., directive)
RECURSIVE repeat_directive(_, _)
RECURSIVE repeat_directive_next(_, _, _)
repeat_directive(s, acc) == repeat_directive_next(s, acc, directive(s))

repeat_directive_next(s, acc, x) ==
    IF repeat_goes_on(s, x) THEN repeat_directive(After(x), Append(acc, x.val))
    ELSE repeat_ends(s, acc, x)

\* fn repeat_without_none, of directive
repeat_without_none_directive(s) == without_none_fold(repeat_directive(s, <<>>))

\* a Module that also keeps the .target tag and the address-size presence
module_map_with_target(v, t, a, directives) ==
    IF directives.ok
    THEN Map(directives, [version |-> v.val, target |-> t.val,
                          address_size |-> a.val # <<>>,
                          directives |-> directives.val])
    ELSE directives

\* fn module, the tuple (version, target, opt(address_size),
\* repeat_without_none(directive)) one member after the other; its closure
\* keeps the version and the directives
module_map(v, t, a, directives) ==
    IF directives.ok
    THEN Map(directives, [version |-> v.val, directives |-> directives.val])
    ELSE directives

module_directives(v, t, a) ==
    IF a.ok THEN module_map(v, t, a, repeat_without_none_directive(After(a))) ELSE a

module_address_size(v, t) ==
    IF t.ok THEN module_directives(v, t, Opt(After(t), address_size(After(t)))) ELSE t

module_target(v) == IF v.ok THEN module_address_size(v, target(After(v))) ELSE v

module(s) == module_target(version(s))

\* ------------------------------------------------------------------- lexer
\* The token rules of enum Token (the regexes of the payload tokens).

AllIn(s, from, set) == \A i \in from..Len(s) : s[i] \in set

\* [0-9]+U?
IsDecimal(s) ==
    /\ Len(s) >= 1
    /\ LET body == IF EndsWithU(s) THEN SubSeq(s, 1, Len(s) - 1) ELSE s
       IN Len(body) >= 1 /\ AllIn(body, 1, DecDigits)

\* 0[xX][0-9a-zA-Z]+U?
IsHex(s) == Len(s) >= 3 /\ s[1] = "0" /\ s[2] \in {"x", "X"} /\ AllIn(s, 3, AlphaNum)

\* 0[fF][0-9a-zA-Z]{8}
IsF32(s) == Len(s) = 10 /\ s[1] = "0" /\ s[2] \in {"f", "F"} /\ AllIn(s, 3, AlphaNum)

\* 0[dD][0-9a-zA-Z]{16}
IsF64(s) == Len(s) = 18 /\ s[1] = "0" /\ s[2] \in {"d", "D"} /\ AllIn(s, 3, AlphaNum)

\* [a-zA-Z][a-zA-Z0-9_$]*|[_$%][a-zA-Z0-9_$]+
IsIdent(s) ==
    /\ Len(s) >= 1
    /\ AllIn(s, 2, AlphaNum \cup {"_", "$"})
    /\ \/ s[1] \in LowerLetters \cup UpperLetters
       \/ s[1] \in {"_", "$", "%"} /\ Len(s) >= 2

NumberToken(s) ==
    IF IsHex(s) THEN Text("Hex", s)
    ELSE IF IsF32(s) THEN Text("F32", s)
    ELSE IF IsF64(s) THEN Text("F64", s)
    ELSE Text("Decimal", s)

\* Literals at the edges of the integer widths, and float bit patterns.
NumSeeds ==
    {
     <<"2", "5", "5">>,
     <<"2", "5", "6">>,
     <<"0", "3", "7", "7">>,
     <<"0", "4", "0", "0">>,
     <<"2", "1", "4", "7", "4", "8", "3", "6", "4", "7">>,
     <<"2", "1", "4", "7", "4", "8", "3", "6", "4", "8">>,
     <<"4", "2", "9", "4", "9", "6", "7", "2", "9", "5">>,
     <<"4", "2", "9", "4", "9", "6", "7", "2", "9", "6">>,
     <<"9", "2", "2", "3", "3", "7", "2", "0", "3", "6", "8", "5", "4", "7", "7", "5", "8", "0", "7">>,
     <<"9", "2", "2", "3", "3", "7", "2", "0", "3", "6", "8", "5", "4", "7", "7", "5", "8", "0", "8">>,
     <<"1", "8", "4", "4", "6", "7", "4", "4", "0", "7", "3", "7", "0", "9", "5", "5", "1", "6", "1", "5">>,
     <<"1", "8", "4", "4", "6", "7", "4", "4", "0", "7", "3", "7", "0", "9", "5", "5", "1", "6", "1", "6">>,
     <<"0", "7", "7", "7", "7", "7", "7", "7", "7", "7", "7", "7", "7", "7", "7", "7", "7", "7", "7", "7", "7", "7">>,
     <<"0", "1", "0", "0", "0", "0", "0", "0", "0", "0", "0", "0", "0", "0", "0", "0", "0", "0", "0", "0", "0", "0", "0">>,
     <<"0", "1", "7", "7", "7", "7", "7", "7", "7", "7", "7", "7", "7", "7", "7", "7", "7", "7", "7", "7", "7", "7", "7">>,
     <<"0", "2", "0", "0", "0", "0", "0", "0", "0", "0", "0", "0", "0", "0", "0", "0", "0", "0", "0", "0", "0", "0", "0">>,
     <<"0", "x", "7", "F", "F", "F", "F", "F", "F", "F", "F", "F", "F", "F", "F", "F", "F", "F">>,
     <<"0", "x", "8", "0", "0", "0", "0", "0", "0", "0", "0", "0", "0", "0", "0", "0", "0", "0">>,
     <<"0", "x", "F", "F", "F", "F", "F", "F", "F", "F", "F", "F", "F", "F", "F", "F", "F", "F">>,
     <<"0", "x", "1", "0", "0", "0", "0", "0", "0", "0", "0", "0", "0", "0", "0", "0", "0", "0", "0">>,
     <<"0", "x", "7", "f", "f", "f", "f", "f", "f", "f">>,
     <<"0", "x", "8", "0", "0", "0", "0", "0", "0", "0">>,
     <<"0", "x", "F", "F", "F", "F", "F", "F", "F", "F">>,
     <<"0", "x", "1", "0", "0", "0", "0", "0", "0", "0", "0">>,
     <<"0", "x", "g">>,
     <<"0", "f", "3", "F", "8", "0", "0", "0", "0", "0">>,
     <<"0", "f", "Z", "Z", "Z", "Z", "Z", "Z", "Z", "Z">>,
     <<"0", "d", "3", "F", "F", "0", "0", "0", "0", "0", "0", "0", "0", "0", "0", "0", "0", "0">>,
     <<"0", "d", "G", "0", "0", "0", "0", "0", "0", "0", "0", "0", "0", "0", "0", "0", "0", "0">>
    }

NumChars == {"0", "1", "8", "x", "F", "U"}

\* Diagnostics already in the buffer when a literal parser is entered.
PriorStates == {<<>>, <<"Todo">>}

\* The lexer starts a literal with one of the edge literals.
SeedNumber ==
    /\ entry = "lex" /\ lexeme = <<>> /\ typed = 0
    /\ tokens \in {<<>>, <<Unit("Minus")>>}
    /\ \E s \in NumSeeds : lexeme' = s
    /\ UNCHANGED <<tokens, typed, entry, out, start>>

\* The lexer reads one more character of a literal.
TypeNumChar ==
    /\ entry = "lex" /\ typed < MaxNumTyped
    /\ tokens \in {<<>>, <<Unit("Minus")>>}
    /\ \E c \in NumChars : lexeme' = Append(lexeme, c)
    /\ typed' = typed + 1
    /\ UNCHANGED <<tokens, entry, out, start>>

\* The lexer emits the literal it has read as a Hex, Decimal, F32 or F64 token.
EmitNumber ==
    /\ entry = "lex"
    /\ IsDecimal(lexeme) \/ IsHex(lexeme) \/ IsF32(lexeme) \/ IsF64(lexeme)
    /\ tokens \in {<<>>, <<Unit("Minus")>>}
    /\ tokens' = Append(tokens, NumberToken(lexeme))
    /\ lexeme' = <<>> /\ typed' = 0
    /\ UNCHANGED <<entry, out, start>>

\* The lexer emits "-".
EmitMinus ==
    /\ entry = "lex" /\ lexeme = <<>> /\ tokens = <<>>
    /\ tokens' = <<Unit("Minus")>>
    /\ UNCHANGED <<lexeme, typed, entry, out, start>>

\* A parser is run on the lexed tokens, with pre already in the buffer.
Run(name, pre, r) ==
    /\ entry = "lex" /\ lexeme = <<>> /\ tokens # <<>>
    /\ entry' = name
    /\ start' = [input |-> tokens, state |-> pre]
    /\ out' = r
    /\ UNCHANGED <<tokens, lexeme, typed>>

From(pre) == [input |-> tokens, state |-> pre]

ParseIntImmediate == \E pre \in PriorStates : Run("int_immediate", pre, int_immediate(From(pre)))

ParseS32 == \E pre \in PriorStates : Run("s32", pre, s32(From(pre)))

ParseU8 == \E pre \in PriorStates : Run("u8", pre, u8(From(pre)))

ParseU32 == \E pre \in PriorStates : Run("u32", pre, u32(From(pre)))

ParseF32 == \E pre \in PriorStates : Run("f32", pre, f32(From(pre)))

ParseF64 == \E pre \in PriorStates : Run("f64", pre, f64(From(pre)))

ParseImmediateValue ==
    \E pre \in PriorStates : Run("immediate_value", pre, immediate_value(From(pre)))

ParseNum == \E pre \in PriorStates : Run("num", pre, num(From(pre)))

Init ==
    /\ tokens = <<>> /\ lexeme = <<>> /\ typed = 0
    /\ entry = "lex"
    /\ start = Stream(<<>>)
    /\ out = Fail(Stream(<<>>))

NextNum ==
    \/ SeedNumber \/ TypeNumChar \/ EmitNumber \/ EmitMinus
    \/ ParseIntImmediate \/ ParseS32 \/ ParseU8 \/ ParseU32
    \/ ParseF32 \/ ParseF64 \/ ParseImmediateValue \/ ParseNum

\* The numeric literal parsers on one literal, with or without a leading "-".
SpecNum == Init /\ [][NextNum]_vars

\* ------------------------------------------------------------------ target

\* the opcodes of the rule table
OpcodeTexts == {Rules[i].opcode : i \in DOMAIN Rules}

\* An opcode lexes as its own token, any other word as an Ident.
WordToken(s) == IF s \in OpcodeTexts THEN Text("Opcode", s) ELSE Text("Ident", s)

IdentSeeds ==
    {<<"s", "m", "_">>,
     <<"s", "m", "_", "9">>,
     <<"s", "m", "_", "9", "0">>,
     <<"s", "m">>,
     <<"s", "n", "_">>,
     <<"_", "s", "m", "_", "9">>,
     <<"s", "m", "_", "4", "2", "9", "4", "9", "6", "7", "2", "9">>}

IdentChars == {"0", "5", "6", "a", "b", "Z", "_"}

\* The lexer starts a word with one of the seeds.
SeedIdent ==
    /\ entry = "lex" /\ lexeme = <<>> /\ typed = 0
    /\ \A i \in 1..Len(tokens) : tokens[i].k # "Ident"
    /\ \E s \in IdentSeeds : lexeme' = s
    /\ UNCHANGED <<tokens, typed, entry, out, start>>

\* The lexer reads one more character of a word.
TypeIdentChar ==
    /\ entry = "lex" /\ typed < MaxIdentTyped
    /\ \A i \in 1..Len(tokens) : tokens[i].k # "Ident"
    /\ \E c \in IdentChars : lexeme' = Append(lexeme, c)
    /\ typed' = typed + 1
    /\ UNCHANGED <<tokens, entry, out, start>>

\* The lexer emits the word it has read.
EmitWord ==
    /\ entry = "lex" /\ IsIdent(lexeme)
    /\ tokens' = Append(tokens, WordToken(lexeme))
    /\ lexeme' = <<>> /\ typed' = 0
    /\ UNCHANGED <<entry, out, start>>

\* The lexer emits ".target".
EmitDotTarget ==
    /\ entry = "lex" /\ lexeme = <<>> /\ Len(tokens) < 3
    /\ tokens' = Append(tokens, Unit(".target"))
    /\ UNCHANGED <<lexeme, typed, entry, out, start>>

\* target.parse(stream), as the tests run it
ParseTarget == Run("target", <<>>, parse(target(From(<<>>))))

NextTarget ==
    \/ SeedIdent \/ TypeIdentChar \/ EmitWord \/ EmitDotTarget \/ ParseTarget

\* The target parser on ".target" and one word, as in tests::sm_11.
SpecTarget == Init /\ [][NextTarget]_vars

\* ----------------------------------------------------------------- operand

OperandNames == {<<"v">>, <<"%", "r", "1">>}

SuffixChars == {"x", "y", "z", "w", "r", "g", "b", "a", "q", "X"}

\* The lexer emits the register name that starts an operand.
EmitOperandName ==
    /\ entry = "lex" /\ lexeme = <<>> /\ tokens = <<>>
    /\ \E n \in OperandNames : tokens' = <<Text("Ident", n)>>
    /\ UNCHANGED <<lexeme, typed, entry, out, start>>

\* The lexer emits "." after the register name.
EmitDot ==
    /\ entry = "lex" /\ lexeme = <<>> /\ Len(tokens) = 1
    /\ tokens' = Append(tokens, Unit("Dot"))
    /\ UNCHANGED <<lexeme, typed, entry, out, start>>

\* The lexer reads one more character of the word after the ".".
TypeSuffixChar ==
    /\ entry = "lex" /\ typed < MaxSuffixTyped
    /\ Len(tokens) = 2 /\ tokens[2].k = "Dot"
    /\ \E c \in SuffixChars : lexeme' = Append(lexeme, c)
    /\ typed' = typed + 1
    /\ UNCHANGED <<tokens, entry, out, start>>

\* The lexer emits ";" after the operand.
EmitSemicolon ==
    /\ entry = "lex" /\ lexeme = <<>> /\ Len(tokens) \in {1, 3}
    /\ tokens' = Append(tokens, Unit("Semicolon"))
    /\ UNCHANGED <<lexeme, typed, entry, out, start>>

\* ParsedOperand::parse on the tokens
ParseOperand ==
    \E pre \in PriorStates : Run("operand", pre, ParsedOperand_parse(From(pre)))

NextOperand ==
    \/ EmitOperandName \/ EmitDot \/ TypeSuffixChar \/ EmitWord \/ EmitSemicolon
    \/ ParseOperand

\* The operand parser on a register name, alone or with a component suffix.
SpecOperand == Init /\ [][NextOperand]_vars

\* ------------------------------------------------------------- instruction

\* The modifier tokens the lexer emits, by their place in the written order
\* of the rules; the lexer emits them in that order.
LexClasses ==
    << {".mmio"}, {".volatile", ".relaxed", ".release", ".acquire"}, {".sys", ".cta"},
       {".weak"}, {".global"}, {".wt", ".ca"}, {".L1::evict_first"},
       {".L2::cache_hint"}, {".L2::64B"}, {".v4"}, {".rn"}, {".ftz"}, {".sat"},
       {".uni"}, {".b32", ".f32", ".f64"} \cup add_type \cup {".s32"} >>

ClassOf(k) == CHOOSE c \in DOMAIN LexClasses : k \in LexClasses[c]

\* the modifier tokens the rules of an opcode name
ModifiersOf(opcode) ==
    UNION {UNION {Rules[i].mods[j].toks : j \in DOMAIN Rules[i].mods} :
           i \in {r \in DOMAIN Rules : Rules[r].opcode = opcode}}

\* the type tokens of ld and st the lexer emits
LexLdStTypes == {".b32"}

Emittable(opcode) ==
    IF opcode \in {st_opcode, ld_opcode}
    THEN ModifiersOf(opcode) \ (ld_st_type \ LexLdStTypes)
    ELSE ModifiersOf(opcode)

p_name == Text("Ident", <<"p">>)

v_name == Text("Ident", <<"v">>)

q_name == Text("Ident", <<"q">>)

One == Text("Decimal", <<"1">>)

\* the operand texts the lexer emits after the modifiers of an opcode
OperandTexts(opcode) ==
    CASE opcode = st_opcode ->
           {<<Unit("LBracket"), p_name, Unit("RBracket"), Unit("Comma"), v_name>>,
            <<Unit("LBracket"), p_name, Unit("RBracket"), Unit("Comma"), v_name,
              Unit("Comma"), q_name>>,
            <<p_name, Unit("Comma"), v_name>>}
      [] opcode = ld_opcode ->
           {<<v_name, Unit("Comma"), Unit("LBracket"), p_name, Unit("RBracket")>>,
            <<v_name, Unit("Comma"), Unit("LBracket"), p_name, Unit("RBracket"),
              Unit(".unified")>>,
            <<v_name, Unit("Comma"), Unit("LBracket"), p_name, Unit("RBracket"),
              Unit("Comma"), q_name>>,
            <<v_name, Unit("Comma"), Unit("LBracket"), p_name, Unit("RBracket"),
              Unit(".unified"), Unit("Comma"), q_name>>}
      [] opcode = add_opcode ->
           {<<v_name, Unit("Comma"), p_name, Unit("Comma"), q_name>>,
            <<v_name, Unit("Comma"), p_name, Unit("Comma"), One>>,
            <<v_name, Unit("Comma"), p_name>>}
      [] opcode = mov_opcode -> {<<v_name, Unit("Comma"), p_name>>}
      [] opcode = ret_opcode -> {<<Unit("Semicolon")>>}

\* the tokens are an opcode and modifiers only
OnlyModifiers ==
    /\ tokens # <<>> /\ tokens[1].k = "Opcode"
    /\ \A i \in 2..Len(tokens) : tokens[i].k \in AllModifierTokens

\* The lexer emits an opcode.
EmitOpcode ==
    /\ entry = "lex" /\ lexeme = <<>> /\ tokens = <<>>
    /\ \E op \in OpcodeTexts : tokens' = <<Text("Opcode", op)>>
    /\ UNCHANGED <<lexeme, typed, entry, out, start>>

\* The lexer emits one more modifier of the opcode.
EmitModifier ==
    /\ entry = "lex" /\ lexeme = <<>> /\ OnlyModifiers
    /\ Len(tokens) - 1 < MaxModifiers
    /\ \E c \in DOMAIN LexClasses :
         /\ Len(tokens) > 1 => c > ClassOf(tokens[Len(tokens)].k)
         /\ \E k \in LexClasses[c] \cap Emittable(tokens[1].s) :
              tokens' = Append(tokens, Unit(k))
    /\ UNCHANGED <<lexeme, typed, entry, out, start>>

\* The lexer emits the operands.
EmitOperands ==
    /\ entry = "lex" /\ lexeme = <<>> /\ OnlyModifiers
    /\ \E text \in OperandTexts(tokens[1].s) : tokens' = tokens \o text
    /\ UNCHANGED <<lexeme, typed, entry, out, start>>

\* parse_instruction on the tokens
ParseInstruction ==
    \E pre \in PriorStates : Run("instruction", pre, parse_instruction(From(pre)))

NextInstr ==
    \/ EmitOpcode \/ EmitModifier \/ EmitOperands \/ ParseInstruction

\* The generated instruction parser on one instruction.
SpecInstr == Init /\ [][NextInstr]_vars


\* ------------------------------------- instruction with a numeral operand

\* a Decimal token that from_str_radix rejects: radix 8, digit 8
Eight == Text("Decimal", <<"0", "8">>)

\* operand texts with the numeral where the opcode takes an immediate
NumeralOperandTexts(opcode) ==
    CASE opcode = st_opcode ->
           {<<Unit("LBracket"), p_name, Unit("RBracket"), Unit("Comma"), Eight>>,
            <<Unit("LBracket"), p_name, Unit("RBracket"), Unit("Comma"), Eight,
              Unit("Comma"), q_name>>}
      [] opcode = ld_opcode ->
           {<<v_name, Unit("Comma"), Unit("LBracket"), Eight, Unit("RBracket")>>}
      [] opcode = add_opcode ->
           {<<v_name, Unit("Comma"), p_name, Unit("Comma"), Eight>>}
      [] opcode = mov_opcode -> {<<v_name, Unit("Comma"), Eight>>}
      [] opcode = ret_opcode -> {}

\* The lexer emits operands one of which is the numeral.
EmitNumeralOperands ==
    /\ entry = "lex" /\ lexeme = <<>> /\ OnlyModifiers
    /\ \E text \in NumeralOperandTexts(tokens[1].s) : tokens' = tokens \o text
    /\ UNCHANGED <<lexeme, typed, entry, out, start>>

NextOrder ==
    \/ EmitOpcode \/ EmitModifier \/ EmitOperands \/ EmitNumeralOperands
    \/ ParseInstruction

\* The generated instruction parser on one instruction, numerals among its
\* operands.
SpecOrder == Init /\ [][NextOrder]_vars

\* ---------------------------------------------------------------- function

TuningTokens == DOMAIN TuningOf

\* the declarations the lexer emits after the linking directive
Declarations ==
    {<<Unit(".entry"), Text("Ident", <<"f">>), Unit("LParen"), Unit("RParen")>>,
     <<Unit(".func"), Text("Ident", <<"g">>), Unit("LParen"), Unit("RParen")>>}

\* the numerals the lexer emits after a tuning directive
TupleNumerals == {<<"8">>, <<"4">>}

\* the bodies the lexer emits: `;` and `{ ret ; }`
Bodies ==
    {<<Unit("Semicolon")>>,
     <<Unit("LBrace"), Text("Opcode", ret_opcode), Unit("Semicolon"), Unit("RBrace")>>}

LastKind == tokens[Len(tokens)].k

\* tuning directives in the tokens
TuningCount == Cardinality({i \in 1..Len(tokens) : tokens[i].k \in TuningTokens})

\* the place of the last tuning directive in the tokens
LastTuning ==
    CHOOSE i \in 1..Len(tokens) :
        tokens[i].k \in TuningTokens /\ \A j \in (i + 1)..Len(tokens) : tokens[j].k \notin TuningTokens

\* numerals written after the last tuning directive
ValuesInLast ==
    Cardinality({i \in LastTuning..Len(tokens) : tokens[i].k = "Decimal"})

BodyWritten == \E i \in 1..Len(tokens) : tokens[i].k \in {"Semicolon", "LBrace"}

\* The lexer emits the linking directive of a function.
EmitLinking ==
    /\ entry = "lex" /\ lexeme = <<>> /\ tokens = <<>>
    /\ \E k \in DOMAIN LinkingOf : tokens' = <<Unit(k)>>
    /\ UNCHANGED <<lexeme, typed, entry, out, start>>

\* The lexer emits the declaration of the function.
EmitDeclaration ==
    /\ entry = "lex" /\ lexeme = <<>> /\ Len(tokens) = 1
    /\ \E d \in Declarations : tokens' = tokens \o d
    /\ UNCHANGED <<lexeme, typed, entry, out, start>>

\* The lexer emits a tuning directive.
EmitTuning ==
    /\ entry = "lex" /\ lexeme = <<>> /\ Len(tokens) > 1 /\ ~BodyWritten
    /\ LastKind \in {"RParen", "Decimal"}
    /\ TuningCount < MaxTunings
    /\ \E k \in TuningTokens : tokens' = Append(tokens, Unit(k))
    /\ UNCHANGED <<lexeme, typed, entry, out, start>>

\* The lexer emits the first value of a tuning directive, or "," and one more.
EmitTupleValue ==
    /\ entry = "lex" /\ lexeme = <<>> /\ Len(tokens) > 1 /\ ~BodyWritten
    /\ \E n \in TupleNumerals :
         \/ /\ LastKind \in TuningTokens
            /\ tokens' = Append(tokens, Text("Decimal", n))
         \/ /\ LastKind = "Decimal" /\ ValuesInLast < MaxTupleValues
            /\ tokens' = tokens \o <<Unit("Comma"), Text("Decimal", n)>>
    /\ UNCHANGED <<lexeme, typed, entry, out, start>>

\* The lexer emits the body of the function.
EmitBody ==
    /\ entry = "lex" /\ lexeme = <<>> /\ Len(tokens) > 1 /\ ~BodyWritten
    /\ LastKind \in {"RParen", "Decimal"}
    /\ \E b \in Bodies : tokens' = tokens \o b
    /\ UNCHANGED <<lexeme, typed, entry, out, start>>

\* function on the tokens
ParseFunction == Run("function", <<>>, function(From(<<>>)))

NextFunction ==
    \/ EmitLinking \/ EmitDeclaration \/ EmitTuning \/ EmitTupleValue \/ EmitBody
    \/ ParseFunction

\* The function parser on one function with its tuning directives.
SpecFunction == Init /\ [][NextFunction]_vars

\* ------------------------------------------------------------------ module

\* the .version lines the lexer emits
Versions ==
    {<<Unit(".version"), Text("Decimal", <<"7">>), Unit("Dot"), Text("Decimal", <<"8">>)>>,
     <<Unit(".version"), Text("Decimal", <<"8">>), Unit("Dot"), Text("Decimal", <<"0">>)>>}

\* the words the lexer emits after .target
TargetWords == {<<"s", "m", "_", "7", "5">>, <<"s", "m", "_", "9", "0", "a">>}

\* the numerals the lexer emits after .address_size
AddressSizes == {<<"6", "4">>, <<"3", "2">>}

\* the functions the lexer emits: `.visible .entry f();` and
\* `.weak .func g() { ret; }`
Functions ==
    {<<Unit(".visible"), Unit(".entry"), Text("Ident", <<"f">>), Unit("LParen"),
       Unit("RParen"), Unit("Semicolon")>>,
     <<Unit(".weak"), Unit(".func"), Text("Ident", <<"g">>), Unit("LParen"),
       Unit("RParen"), Unit("LBrace"), Text("Opcode", ret_opcode), Unit("Semicolon"),
       Unit("RBrace")>>}

\* functions in the tokens
DirectiveCount == Cardinality({i \in 1..Len(tokens) : tokens[i].k \in DOMAIN LinkingOf})

\* .version and .target are written
HeaderWritten == \E i \in 1..Len(tokens) : tokens[i].k = "Ident" /\ tokens[i - 1].k = ".target"

\* The lexer emits the .version line.
EmitVersion ==
    /\ entry = "lex" /\ lexeme = <<>> /\ tokens = <<>>
    /\ \E v \in Versions : tokens' = v
    /\ UNCHANGED <<lexeme, typed, entry, out, start>>

\* The lexer emits the .target line.
EmitTargetDirective ==
    /\ entry = "lex" /\ lexeme = <<>> /\ tokens \in Versions
    /\ \E w \in TargetWords : tokens' = tokens \o <<Unit(".target"), Text("Ident", w)>>
    /\ UNCHANGED <<lexeme, typed, entry, out, start>>

\* The lexer emits the .address_size line.
EmitAddressSize ==
    /\ entry = "lex" /\ lexeme = <<>> /\ tokens # <<>> /\ LastKind = "Ident"
    /\ HeaderWritten /\ DirectiveCount = 0
    /\ \E n \in AddressSizes :
         tokens' = tokens \o <<Unit(".address_size"), Text("Decimal", n)>>
    /\ UNCHANGED <<lexeme, typed, entry, out, start>>

\* The lexer emits one more function.
EmitFunction ==
    /\ entry = "lex" /\ lexeme = <<>> /\ tokens # <<>> /\ HeaderWritten
    /\ DirectiveCount < MaxDirectives
    /\ \E f \in Functions : tokens' = tokens \o f
    /\ UNCHANGED <<lexeme, typed, entry, out, start>>

\* The lexer emits a "," where no directive starts.
EmitStray ==
    /\ entry = "lex" /\ lexeme = <<>> /\ tokens # <<>> /\ HeaderWritten
    /\ \A i \in 1..Len(tokens) : tokens[i].k # "Comma"
    /\ tokens' = Append(tokens, Unit("Comma"))
    /\ UNCHANGED <<lexeme, typed, entry, out, start>>

\* module.parse(stream), as main runs it
ParseModule == Run("module", <<>>, parse(module(From(<<>>))))

NextModule ==
    \/ EmitVersion \/ EmitTargetDirective \/ EmitAddressSize \/ EmitFunction
    \/ EmitStray \/ ParseModule

\* The top-level parse of a module of a few functions.
SpecModule == Init /\ [][NextModule]_vars

\* -------------------------------------------------------------------- body

\* the head of the function whose body the lexer emits: `.visible .entry f()`
BodyHead ==
    <<Unit(".visible"), Unit(".entry"), Text("Ident", <<"f">>), Unit("LParen"),
      Unit("RParen")>>

\* the statements the lexer emits: `L:`, `.reg .b32 r;`, `ret;`,
\* `.loc 1 1 1` and `.pragma "x";`
StatementTexts ==
    {<<Text("Ident", <<"L">>), Unit("Colon")>>,
     <<Unit(".reg"), Unit(".b32"), Text("Ident", <<"r">>), Unit("Semicolon")>>,
     <<Text("Opcode", ret_opcode), Unit("Semicolon")>>,
     <<Unit(".loc"), One, One, One>>,
     <<Unit(".pragma"), Text("String", <<"x">>), Unit("Semicolon")>>}

CountOf(kinds) == Cardinality({i \in 1..Len(tokens) : tokens[i].k \in kinds})

\* blocks open at the end of the tokens
OpenBlocks == CountOf({"LBrace"}) - CountOf({"RBrace"})

\* statements and blocks written so far
BodyItems == CountOf({"Colon", "Semicolon", ".loc", "LBrace"})

\* The lexer emits the head of the function.
EmitHead ==
    /\ entry = "lex" /\ lexeme = <<>> /\ tokens = <<>>
    /\ tokens' = BodyHead
    /\ UNCHANGED <<lexeme, typed, entry, out, start>>

\* The lexer emits the ";" of a forward declaration.
EmitForward ==
    /\ entry = "lex" /\ lexeme = <<>> /\ tokens = BodyHead
    /\ tokens' = Append(tokens, Unit("Semicolon"))
    /\ UNCHANGED <<lexeme, typed, entry, out, start>>

\* The lexer emits "{": the body, or a block inside it.
EmitOpenBrace ==
    /\ entry = "lex" /\ lexeme = <<>>
    /\ tokens = BodyHead \/ (OpenBlocks >= 1 /\ OpenBlocks < MaxDepth)
    /\ BodyItems < MaxBodyItems
    /\ tokens' = Append(tokens, Unit("LBrace"))
    /\ UNCHANGED <<lexeme, typed, entry, out, start>>

\* The lexer emits "}".
EmitCloseBrace ==
    /\ entry = "lex" /\ lexeme = <<>> /\ OpenBlocks >= 1
    /\ tokens' = Append(tokens, Unit("RBrace"))
    /\ UNCHANGED <<lexeme, typed, entry, out, start>>

\* The lexer emits one statement inside the innermost open block.
EmitStatement ==
    /\ entry = "lex" /\ lexeme = <<>> /\ OpenBlocks >= 1
    /\ BodyItems < MaxBodyItems
    /\ \E text \in StatementTexts : tokens' = tokens \o text
    /\ UNCHANGED <<lexeme, typed, entry, out, start>>

NextBody ==
    \/ EmitHead \/ EmitForward \/ EmitOpenBrace \/ EmitCloseBrace \/ EmitStatement
    \/ ParseFunction

\* The function parser on one function and the statements of its body.
SpecBody == Init /\ [][NextBody]_vars


\* --------------------------------------------------------------- statement

MaxStatementTokens == 4

\* the tokens the lexer emits for a statement: `@`, `!`, `:`, `;`, `.uni`,
\* the name p and the opcode-spelled name ret
StatementTokens ==
    {Unit("At"), Unit("Not"), Unit("Colon"), Unit("Semicolon"), Unit(".uni"),
     WordToken(<<"p">>), WordToken(ret_opcode)}

\* The lexer emits one more token of a statement.
EmitStatementToken ==
    /\ entry = "lex" /\ lexeme = <<>>
    /\ Len(tokens) < MaxStatementTokens
    /\ \A i \in DOMAIN tokens : tokens[i] \in StatementTokens
    /\ \E t \in StatementTokens : tokens' = Append(tokens, t)
    /\ UNCHANGED <<lexeme, typed, entry, out, start>>

\* statement on the tokens
ParseStatement ==
    \E pre \in PriorStates : Run("statement", pre, statement(From(pre)))

\* opt(pred_at), the first member of predicated_instruction, on the tokens
ParseOptPredAt ==
    \E pre \in PriorStates :
        Run("opt_pred_at", pre, Opt(From(pre), pred_at(From(pre))))

NextStatement ==
    \/ EmitStatementToken \/ ParseStatement \/ ParseOptPredAt

\* The statement parser on the first tokens of one statement.
SpecStatement == Init /\ [][NextStatement]_vars


\* ----------------------------------------------------------- ReverseStream
\* struct ReverseStream<'a, T>(pub &'a [T]) over the emitted tokens.  A
\* slice &[T] is the place of its first element in the tokens and its
\* length.  While entry is "reverse", out holds the stream: self is its
\* field, call and arg the method called last, ret what that returned;
\* before is the slice the stream held when that method was called, from and
\* got the slice at the first of the next_token calls made in a row and the
\* tokens they returned.  start holds the caller's checkpoint, what the
\* stream held when it was taken, and the tokens consumed since.

MaxSliceLen == 3

\* size_of::<T>()
SizeOfT == 8

ElementTokens == {Unit("Comma"), Unit("Semicolon")}

Slice(ptr, len) == [ptr |-> ptr, len |-> len]

\* the elements of a slice
Elements(sl) == SubSeq(tokens, sl.ptr + 1, sl.ptr + sl.len)

\* <[T]>::as_ptr
as_ptr(sl) == sl.ptr * SizeOfT

\* <[T]>::split_first
split_first(sl) ==
    IF sl.len = 0 THEN <<>>
    ELSE <<[token |-> tokens[sl.ptr + 1], next |-> Slice(sl.ptr + 1, sl.len - 1)]>>

\* <[T]>::split_last
split_last(sl) ==
    IF sl.len = 0 THEN <<>>
    ELSE <<[token |-> tokens[sl.ptr + sl.len], next |-> Slice(sl.ptr, sl.len - 1)]>>

\* <[T]>::split_at
split_at(sl, mid) == <<Slice(sl.ptr, mid), Slice(sl.ptr + mid, sl.len - mid)>>

\* fn next_token: the field after the call and the value returned
next_token(self) ==
    IF split_last(self) = <<>> THEN [self |-> self, ret |-> <<>>]
    ELSE [self |-> split_last(self)[1].next, ret |-> <<split_last(self)[1].token>>]

\* fn next_slice
next_slice(self, offset) ==
    [self |-> split_at(self, self.len - offset)[1],
     ret |-> split_at(self, self.len - offset)[2]]

\* fn checkpoint
checkpoint(self) == self

\* fn reset
reset(self, c) == c

\* fn offset_from
offset_from(self, c) == (as_ptr(c) - as_ptr(self)) \div SizeOfT

\* The lexer emits one more element of the slice.
EmitElement ==
    /\ entry = "lex" /\ lexeme = <<>>
    /\ Len(tokens) < MaxSliceLen
    /\ \A i \in DOMAIN tokens : tokens[i] \in ElementTokens
    /\ \E t \in ElementTokens : tokens' = Append(tokens, t)
    /\ UNCHANGED <<lexeme, typed, entry, out, start>>

\* what a method returned: the token of next_token, the slice of next_slice
\* and checkpoint, the number of offset_from
Returned(token, slice, number) == [token |-> token, slice |-> slice, number |-> number]

NothingReturned == Returned(<<>>, Slice(0, 0), 0)

\* ReverseStream(tokens)
NewReverseStream ==
    /\ entry = "lex" /\ lexeme = <<>>
    /\ \A i \in DOMAIN tokens : tokens[i] \in ElementTokens
    /\ entry' = "reverse"
    /\ out' = [self |-> Slice(0, Len(tokens)), call |-> "new", arg |-> 0, ret |-> NothingReturned,
               before |-> Slice(0, Len(tokens)),
               from |-> Slice(0, Len(tokens)), got |-> <<>>]
    /\ start' = [taken |-> FALSE, checkpoint |-> Slice(0, 0), held |-> <<>>,
                 consumed |-> 0]
    /\ UNCHANGED <<tokens, lexeme, typed>>

\* the stream after a method other than next_token
Called(name, arg, self, ret) ==
    [self |-> self, call |-> name, arg |-> arg, ret |-> ret, before |-> out.self,
     from |-> self, got |-> <<>>]

\* stream.next_token()
NextToken ==
    /\ entry = "reverse"
    /\ out' = [self |-> next_token(out.self).self, call |-> "next_token", arg |-> 0,
               ret |-> Returned(next_token(out.self).ret, Slice(0, 0), 0),
               before |-> out.self,
               from |-> out.from, got |-> out.got \o next_token(out.self).ret]
    /\ start' = [start EXCEPT !.consumed = @ + Len(next_token(out.self).ret)]
    /\ UNCHANGED <<tokens, lexeme, typed, entry>>

\* stream.next_slice(m), m at most the tokens left
NextSlice ==
    /\ entry = "reverse"
    /\ \E m \in 0..out.self.len :
         /\ out' = Called("next_slice", m, next_slice(out.self, m).self,
                          Returned(<<>>, next_slice(out.self, m).ret, 0))
         /\ start' = [start EXCEPT !.consumed = @ + m]
    /\ UNCHANGED <<tokens, lexeme, typed, entry>>

\* c = stream.checkpoint()
Checkpoint ==
    /\ entry = "reverse"
    /\ out' = Called("checkpoint", 0, out.self,
                    Returned(<<>>, checkpoint(out.self), 0))
    /\ start' = [taken |-> TRUE, checkpoint |-> checkpoint(out.self),
                 held |-> Elements(out.self), consumed |-> 0]
    /\ UNCHANGED <<tokens, lexeme, typed, entry>>

\* stream.reset(&c)
Reset ==
    /\ entry = "reverse" /\ start.taken
    /\ out' = Called("reset", 0, reset(out.self, start.checkpoint), NothingReturned)
    /\ start' = [start EXCEPT !.consumed = 0]
    /\ UNCHANGED <<tokens, lexeme, typed, entry>>

\* stream.offset_from(&c)
OffsetFrom ==
    /\ entry = "reverse" /\ start.taken
    /\ out' = Called("offset_from", 0, out.self,
                    Returned(<<>>, Slice(0, 0), offset_from(out.self, start.checkpoint)))
    /\ UNCHANGED <<tokens, lexeme, typed, entry, start>>

NextReverse ==
    \/ EmitElement \/ NewReverseStream
    \/ NextToken \/ NextSlice \/ Checkpoint \/ Reset \/ OffsetFrom

\* A ReverseStream over a slice of tokens and the calls made on it.
SpecReverse == Init /\ [][NextReverse]_vars


\* --------------------------------------------------- module with numerals

MaxNumeralStatements == 2

r_name == Text("Ident", <<"r">>)

\* `.version 7.8 .target sm_75` and `.version 08.0 .target sm_75`
NumeralVersions ==
    {<<Unit(".version"), Text("Decimal", <<"7">>), Unit("Dot"), Text("Decimal", <<"8">>),
       Unit(".target"), Text("Ident", <<"s", "m", "_", "7", "5">>)>>,
     <<Unit(".version"), Eight, Unit("Dot"), Text("Decimal", <<"0">>),
       Unit(".target"), Text("Ident", <<"s", "m", "_", "7", "5">>)>>}

\* nothing, `.address_size 64`, `.address_size 0100` and `.address_size 08`
NumeralAddressSizes ==
    {<<>>,
     <<Unit(".address_size"), Text("Decimal", <<"6", "4">>)>>,
     <<Unit(".address_size"), Text("Decimal", <<"0", "1", "0", "0">>)>>,
     <<Unit(".address_size"), Eight>>}

\* nothing, `.maxntid 08` and `.maxntid 1, 08`
NumeralTunings ==
    {<<>>,
     <<Unit(".maxntid"), Eight>>,
     <<Unit(".maxntid"), One, Unit("Comma"), Eight>>}

RegisterText == <<Unit(".reg"), Unit(".b32"), r_name>>

LocText == <<Unit(".loc"), One, One, One, Unit("Comma"),
             Text("Ident", function_name), Text("Ident", <<"f">>), Unit("Comma"),
             Text("Ident", inlined_at)>>

MovText == <<Text("Opcode", mov_opcode), Unit(".b32"), r_name, Unit("Comma")>>

\* the statements the lexer emits: `.reg .b32 r;`, `.reg .b32 r<08>;`,
\* `.reg .b32 r<08;`, `.loc 08 1 1`,
\* `.loc 1 1 1, function_name f, inlined_at 08 1 1`, the same without its
\* last numeral, `mov.b32 r, 1;`, `mov.b32 r, 08;` and `mov.b32 r, 08`
NumeralStatementTexts ==
    {RegisterText \o <<Unit("Semicolon")>>,
     RegisterText \o <<Unit("Lt"), Eight, Unit("Gt"), Unit("Semicolon")>>,
     RegisterText \o <<Unit("Lt"), Eight, Unit("Semicolon")>>,
     <<Unit(".loc"), Eight, One, One>>,
     LocText \o <<Eight, One, One>>,
     LocText \o <<Eight, One>>,
     MovText \o <<One, Unit("Semicolon")>>,
     MovText \o <<Eight, Unit("Semicolon")>>,
     MovText \o <<Eight>>}

\* statements written so far
NumeralStatements == CountOf({".reg", ".loc", "Opcode"})

\* The lexer emits .version, .target and .address_size.
EmitNumeralHeader ==
    /\ entry = "lex" /\ lexeme = <<>> /\ tokens = <<>>
    /\ \E v \in NumeralVersions : \E a \in NumeralAddressSizes : tokens' = v \o a
    /\ UNCHANGED <<lexeme, typed, entry, out, start>>

\* The lexer emits the head of a kernel, its tuning directive and "{".
EmitNumeralEntry ==
    /\ entry = "lex" /\ lexeme = <<>> /\ tokens # <<>>
    /\ tokens[1].k = ".version" /\ CountOf({".entry"}) = 0
    /\ \E tuning \in NumeralTunings :
         tokens' = tokens \o BodyHead \o tuning \o <<Unit("LBrace")>>
    /\ UNCHANGED <<lexeme, typed, entry, out, start>>

\* The lexer emits one statement of the body.
EmitNumeralStatement ==
    /\ entry = "lex" /\ lexeme = <<>> /\ tokens # <<>>
    /\ tokens[1].k = ".version" /\ OpenBlocks = 1
    /\ NumeralStatements < MaxNumeralStatements
    /\ \E text \in NumeralStatementTexts : tokens' = tokens \o text
    /\ UNCHANGED <<lexeme, typed, entry, out, start>>

\* The lexer emits the "}" of the body.
EmitNumeralClose ==
    /\ entry = "lex" /\ lexeme = <<>> /\ tokens # <<>>
    /\ tokens[1].k = ".version" /\ OpenBlocks = 1
    /\ tokens' = Append(tokens, Unit("RBrace"))
    /\ UNCHANGED <<lexeme, typed, entry, out, start>>

NextDiagnostics ==
    \/ EmitNumeralHeader \/ EmitNumeralEntry \/ EmitNumeralStatement
    \/ EmitNumeralClose \/ ParseModule

\* The top-level parse of a module of one kernel, numerals that are
\* rejected among its tokens.
SpecDiagnostics == Init /\ [][NextDiagnostics]_vars

\* ============================================================== properties

\* ------------------------------------------------------------------- loops

MaxLoopItems == 3

\* the texts the lexer emits under a repeat: the statements `L:`,
\* `.reg .b32 r;`, `ret;`, `.loc 1 1 1` and `.pragma "x";`, the braces `{`
\* and `}`, the block `{ ret; }`, the tuning directive `.maxnreg 1` and the
\* functions `.visible .entry f();` and `.weak .func g() { ret; }`
LoopTexts ==
    StatementTexts
    \cup {<<Unit("LBrace")>>,
          <<Unit("RBrace")>>,
          <<Unit("LBrace"), Text("Opcode", ret_opcode), Unit("Semicolon"), Unit("RBrace")>>,
          <<Unit(".maxnreg"), One>>}
    \cup Functions

\* the parsers main.rs puts under repeat(0.., ...)
RepeatedParsers == {"directive", "tuning_directive", "statement"}

\* one run of the repeated parser at s; the items of every repeat are kept
\* as Options, Some(tuning) for a tuning directive
RunOf(parser, s) ==
    CASE parser = "directive" -> directive(s)
      [] parser = "tuning_directive" -> Some(tuning_directive(s))
      [] parser = "statement" -> statement(s)

\* the whole repeat of the parser from s, as the grammar runs it
RepeatOf(parser, s) ==
    CASE parser = "directive" -> repeat_directive(s, <<>>)
      [] parser = "tuning_directive" -> repeat_tuning_directive(s, <<>>)
      [] parser = "statement" -> repeat_statement(s, <<>>)

\* the items of a repeat as Options
ItemsOf(parser, r) ==
    IF parser = "tuning_directive" THEN [i \in DOMAIN r.val |-> <<r.val[i]>>] ELSE r.val

\* what the last run of the repeated parser did
LastRun(ok, consumed) == [ok |-> ok, consumed |-> consumed]

\* a repeat at its cursor, with the items collected so far
Repeating(r, run) ==
    [ok |-> r.ok, input |-> r.input, state |-> r.state, val |-> r.val, run |-> run]

\* The lexer emits one more text.
EmitLoopText ==
    /\ entry = "lex" /\ lexeme = <<>> /\ typed < MaxLoopItems
    /\ \E text \in LoopTexts : tokens' = tokens \o text
    /\ typed' = typed + 1
    /\ UNCHANGED <<lexeme, entry, out, start>>

\* repeat(0.., parser) is entered on the tokens.
EnterRepeat ==
    /\ entry = "lex" /\ lexeme = <<>>
    /\ \E parser \in RepeatedParsers :
         start' = [input |-> tokens, state |-> <<>>, parser |-> parser]
    /\ entry' = "repeat"
    /\ out' = Repeating(Ok(Stream(tokens), <<>>), LastRun(FALSE, 0))
    /\ UNCHANGED <<tokens, lexeme, typed>>

\* repeat(0.., parser) after the run x of its parser at the cursor s: it goes
\* on behind the run, or ends
AfterRun(s, acc, x) ==
    IF repeat_goes_on(s, x)
    THEN [out |-> Repeating(Ok(After(x), acc \o <<x.val>>),
                            LastRun(x.ok, Len(s.input) - Len(x.input))),
          entry |-> "repeat"]
    ELSE [out |-> Repeating(repeat_ends(s, acc, x),
                            LastRun(x.ok, Len(s.input) - Len(x.input))),
          entry |-> "repeated"]

\* one iteration of repeat(0.., parser) at the cursor s
Iteration(parser, s, acc) == AfterRun(s, acc, RunOf(parser, s))

\* the repeat takes the outcome r of an iteration
Step(r) ==
    /\ entry = "repeat"
    /\ out' = r.out
    /\ entry' = r.entry
    /\ UNCHANGED <<tokens, lexeme, typed, start>>

\* One iteration of repeat(0.., parser): the parser runs at the cursor; the
\* repeat goes on after it, or ends.
Iterate == Step(Iteration(start.parser, After(out), out.val))

NextLoops == EmitLoopText \/ EnterRepeat \/ Iterate

\* A repeat that was entered keeps running: weak fairness of Iterate, which
\* is enabled exactly while entry = "repeat" (its other conjuncts only
\* assign), with that enabling condition written out.
IterateFairness == []<>(entry # "repeat") \/ []<><<Iterate>>_vars

\* The repeats of the grammar, one iteration at a time.
SpecLoops == Init /\ [][NextLoops]_vars /\ IterateFairness

\* ------------------------------------------------------------- declaration

MaxParameters == 3

\* the tokens the lexer emits first: `.entry`, `.func`, and `.visible`, which
\* introduces no declaration
Introducers == {".entry", ".func", ".visible"}

\* the state spaces the lexer emits at the start of a parameter
ParameterSpaces == {".param", ".reg", ".local"}

\* the names the lexer emits for parameters
ParameterNames == {<<"a">>, <<"b">>}

\* lists open at the end of the tokens
OpenLists == CountOf({"LParen"}) - CountOf({"RParen"})

\* the name of the method is an Ident right after the introducer or after
\* the ")" of the return list
IsMethodName(i) ==
    /\ i \in 2..Len(tokens) /\ tokens[i].k = "Ident"
    /\ tokens[i - 1].k \in Introducers \cup {"RParen"}

NameWritten == \E i \in DOMAIN tokens : IsMethodName(i)

\* The lexer emits the token that introduces the declaration.
EmitIntroducer ==
    /\ entry = "lex" /\ lexeme = <<>> /\ tokens = <<>>
    /\ \E k \in Introducers : tokens' = <<Unit(k)>>
    /\ UNCHANGED <<lexeme, typed, entry, out, start>>

\* The lexer emits "(": a list before the name, or the list after it.
EmitOpenList ==
    /\ entry = "lex" /\ lexeme = <<>> /\ tokens # <<>> /\ OpenLists = 0
    /\ LastKind \in Introducers \cup {"Ident"}
    /\ tokens' = Append(tokens, Unit("LParen"))
    /\ UNCHANGED <<lexeme, typed, entry, out, start>>

\* The lexer emits one parameter, after "," when it is not the first of its
\* list: a state space, `.b32` and a name.
EmitParameter ==
    /\ entry = "lex" /\ lexeme = <<>> /\ tokens # <<>> /\ OpenLists = 1
    /\ CountOf(ParameterSpaces) < MaxParameters
    /\ LastKind \in {"LParen", "Ident"}
    /\ \E k \in ParameterSpaces, n \in ParameterNames :
         tokens' = tokens
                   \o (IF LastKind = "Ident" THEN <<Unit("Comma")>> ELSE <<>>)
                   \o <<Unit(k), Unit(".b32"), Text("Ident", n)>>
    /\ UNCHANGED <<lexeme, typed, entry, out, start>>

\* The lexer emits ")".
EmitCloseList ==
    /\ entry = "lex" /\ lexeme = <<>> /\ tokens # <<>> /\ OpenLists = 1
    /\ tokens' = Append(tokens, Unit("RParen"))
    /\ UNCHANGED <<lexeme, typed, entry, out, start>>

\* The lexer emits the name of the method.
EmitName ==
    /\ entry = "lex" /\ lexeme = <<>> /\ tokens # <<>> /\ ~NameWritten
    /\ LastKind \in Introducers \cup {"RParen"}
    /\ tokens' = Append(tokens, Text("Ident", <<"f">>))
    /\ UNCHANGED <<lexeme, typed, entry, out, start>>

\* method_declaration on the tokens
ParseDeclaration ==
    Run("method_declaration", <<>>, method_declaration(From(<<>>)))

NextDeclaration ==
    \/ EmitIntroducer \/ EmitOpenList \/ EmitParameter \/ EmitCloseList \/ EmitName
    \/ ParseDeclaration

\* The method_declaration parser on one declaration and its lists.
SpecDeclaration == Init /\ [][NextDeclaration]_vars

\* ------------------------------------------------- literals, declaratively
\* The literal a numeric parser was run on, read off the tokens: [-] literal.

HasMinus == Len(start.input) >= 1 /\ start.input[1].k = "Minus"

LitTok == IF HasMinus THEN start.input[2] ELSE start.input[1]

IsLiteralInput ==
    /\ Len(start.input) = (IF HasMinus THEN 2 ELSE 1)
    /\ LitTok.k \in {"Hex", "Decimal"}

LitUnsigned == EndsWithU(LitTok.s)

LitDigits ==
    LET s == LitTok.s
        from == IF LitTok.k = "Hex" THEN 3 ELSE 1
        to == IF LitUnsigned THEN Len(s) - 1 ELSE Len(s)
    IN SubSeq(s, from, to)

LitRadix ==
    IF LitTok.k = "Hex" THEN 16 ELSE IF LitTok.s[1] = "0" THEN 8 ELSE 10

ValidDigits(text, radix) ==
    text # <<>> /\ \A i \in 1..Len(text) : ToDigit(text[i]) < radix

\* The largest value of each width, written in each radix.
MaxText(radix, bits) ==
    CASE bits = 8 /\ radix = 8 -> <<"3", "7", "7">>
      [] bits = 8 /\ radix = 10 -> <<"2", "5", "5">>
      [] bits = 8 /\ radix = 16 -> <<"F", "F">>
      [] bits = 31 /\ radix = 8 -> <<"1", "7", "7", "7", "7", "7", "7", "7", "7", "7", "7">>
      [] bits = 31 /\ radix = 10 -> <<"2", "1", "4", "7", "4", "8", "3", "6", "4", "7">>
      [] bits = 31 /\ radix = 16 -> <<"7", "F", "F", "F", "F", "F", "F", "F">>
      [] bits = 32 /\ radix = 8 -> <<"3", "7", "7", "7", "7", "7", "7", "7", "7", "7", "7">>
      [] bits = 32 /\ radix = 10 -> <<"4", "2", "9", "4", "9", "6", "7", "2", "9", "5">>
      [] bits = 32 /\ radix = 16 -> <<"F", "F", "F", "F", "F", "F", "F", "F">>
      [] bits = 63 /\ radix = 8 -> <<"7", "7", "7", "7", "7", "7", "7", "7", "7", "7", "7", "7", "7", "7", "7", "7", "7", "7", "7", "7", "7">>
      [] bits = 63 /\ radix = 10 -> <<"9", "2", "2", "3", "3", "7", "2", "0", "3", "6", "8", "5", "4", "7", "7", "5", "8", "0", "7">>
      [] bits = 63 /\ radix = 16 -> <<"7", "F", "F", "F", "F", "F", "F", "F", "F", "F", "F", "F", "F", "F", "F", "F">>
      [] bits = 64 /\ radix = 8 -> <<"1", "7", "7", "7", "7", "7", "7", "7", "7", "7", "7", "7", "7", "7", "7", "7", "7", "7", "7", "7", "7", "7">>
      [] bits = 64 /\ radix = 10 -> <<"1", "8", "4", "4", "6", "7", "4", "4", "0", "7", "3", "7", "0", "9", "5", "5", "1", "6", "1", "5">>
      [] bits = 64 /\ radix = 16 -> <<"F", "F", "F", "F", "F", "F", "F", "F", "F", "F", "F", "F", "F", "F", "F", "F">>

RECURSIVE StripZeros(_)
StripZeros(s) ==
    IF Len(s) > 1 /\ s[1] = "0" THEN StripZeros(Tail(s)) ELSE s

\* text, a numeral of the radix, denotes more than the largest value of the
\* width: it is longer than that value's numeral, or as long and greater at
\* the first digit where they differ.
Exceeds(text, radix, bits) ==
    LET t == StripZeros(text)
        m == MaxText(radix, bits)
    IN \/ Len(t) > Len(m)
       \/ /\ Len(t) = Len(m)
          /\ \E i \in 1..Len(t) :
                /\ ToDigit(t[i]) > ToDigit(m[i])
                /\ \A j \in 1..(i - 1) : t[j] = m[j] \/ ToDigit(t[j]) = ToDigit(m[j])

LitOverflows(bits) ==
    ValidDigits(LitDigits, LitRadix) /\ Exceeds(LitDigits, LitRadix, bits)

\* The value of the literal's digits, for a literal of at most 64 bits.
LitValue == FromStrRadix(LitDigits, LitRadix, 64).v

\* 2^63, the magnitude of i64::MIN
TwoTo63 == <<0, 0, 0, 2 ^ 15>>

\* ------------------------------------------------------------------ C3
\* C3 (as claimed): int_immediate maps -N to S64(-N) whenever -N is an i64,
\* NU to U64(N), a bare N of at most i64::MAX to S64(N), and a larger bare N
\* of at most u64::MAX to U64(N); no diagnostic is pushed for these.
C3_SignednessPolicy ==
    (entry = "int_immediate" /\ IsLiteralInput /\ ValidDigits(LitDigits, LitRadix)) =>
        /\ (HasMinus /\ (~Exceeds(LitDigits, LitRadix, 63) \/ LitValue = TwoTo63)
              /\ ~Exceeds(LitDigits, LitRadix, 64)) =>
                out.val = [tag |-> "S64", neg |-> LitValue # Zero, mag |-> LitValue]
        /\ (~HasMinus /\ LitUnsigned /\ ~Exceeds(LitDigits, LitRadix, 64)) =>
                out.val = [tag |-> "U64", neg |-> FALSE, mag |-> LitValue]
        /\ (~HasMinus /\ ~LitUnsigned /\ ~Exceeds(LitDigits, LitRadix, 63)) =>
                out.val = [tag |-> "S64", neg |-> FALSE, mag |-> LitValue]
        /\ (~HasMinus /\ ~LitUnsigned /\ Exceeds(LitDigits, LitRadix, 63)
              /\ ~Exceeds(LitDigits, LitRadix, 64)) =>
                out.val = [tag |-> "U64", neg |-> FALSE, mag |-> LitValue]

\* ------------------------------------------------------------------ C9
NumericEntries == {"int_immediate", "s32", "u8", "u32", "f32", "f64"}

\* The parser each numeric entry hands to take_error, run on the same stream.
InnerOf(e) ==
    CASE e = "int_immediate" -> int_immediate_inner(start)
      [] e = "s32" -> s32_inner(start)
      [] e = "u8" -> unsigned_inner(start, 8)
      [] e = "u32" -> unsigned_inner(start, 32)
      [] e = "f32" -> float_inner(start, "F32", 32)
      [] e = "f64" -> float_inner(start, "F64", 64)

\* The width a literal must fit for the entry not to report an overflow.
WidthOf(e) ==
    CASE e = "u8" -> 8
      [] e = "u32" -> 32
      [] e = "s32" -> 31
      [] e = "int_immediate" -> IF HasMinus THEN 63 ELSE 64

\* The entry accepts the input's shape: u8 and u32 take no sign.
ShapeFits(e) == IsLiteralInput /\ (e \in {"u8", "u32"} => ~HasMinus)

OneMoreParseInt == out.state = Append(start.state, "ParseInt")

ZeroFallback(e) ==
    CASE e \in {"u8", "u32"} -> out.val = Zero
      [] e = "s32" -> out.val = [neg |-> FALSE, mag |-> Zero]
      [] e = "int_immediate" ->
            out.val = [tag |-> IF HasMinus THEN "S64" ELSE "U64", neg |-> FALSE, mag |-> Zero]

\* C9: take_error(p) fails exactly when p fails, pushing nothing; on Ok(v) it
\* returns v and leaves the buffer as it was; on Err((fallback, d)) it returns
\* fallback and pushes exactly d.  So a literal too large for its width does
\* not fail: the value is the zero fallback and one ParseInt is pushed, and a
\* literal that fits pushes nothing; an F32 / F64 token never fails either.
C9_TakeErrorPushesOnce ==
    entry \in NumericEntries =>
        LET p == InnerOf(entry)
        IN /\ out.ok = p.ok
           /\ ~p.ok => out.state = start.state
           /\ (p.ok /\ p.val.isOk) => (out.val = p.val.v /\ out.state = start.state)
           /\ (p.ok /\ ~p.val.isOk) =>
                 (out.val = p.val.v /\ out.state = Append(start.state, p.val.err))
           /\ (entry \in {"u8", "u32", "s32", "int_immediate"} /\ ShapeFits(entry)
                 /\ ValidDigits(LitDigits, LitRadix)) =>
                 IF Exceeds(LitDigits, LitRadix, WidthOf(entry))
                 THEN out.ok /\ ZeroFallback(entry) /\ OneMoreParseInt
                 ELSE out.ok /\ out.state = start.state
           /\ (entry \in {"f32", "f64"} /\ start.input # <<>>
                 /\ start.input[1].k = (IF entry = "f32" THEN "F32" ELSE "F64")) =>
                 IF ValidDigits(SubSeq(start.input[1].s, 3, Len(start.input[1].s)), 16)
                 THEN out.ok /\ out.state = start.state
                 ELSE out.ok /\ out.val = Zero /\ OneMoreParseInt

\* A u32 literal one past u32::MAX was parsed with a diagnostic already in
\* the buffer, and a ParseInt followed it.
C9_Witness ==
    /\ entry = "u32" /\ ShapeFits("u32") /\ LitOverflows(32)
    /\ out.ok /\ out.val = Zero /\ out.state = <<"Todo", "ParseInt">>

\* ------------------------------------------------------------------ C2
TargetWord == start.input[2].s

IsTargetInput ==
    /\ Len(start.input) = 2
    /\ start.input[1].k = ".target"
    /\ start.input[2].k \in {"Ident", "Opcode"}

RECURSIVE PlainValue(_)
\* The number a short decimal numeral denotes.
PlainValue(d) ==
    IF d = <<>> THEN 0 ELSE 10 * PlainValue(SubSeq(d, 1, Len(d) - 1)) + ToDigit(d[Len(d)])

\* The u32 a decimal numeral of at most ten significant digits denotes.
NumeralValue(digits) ==
    LET d == StripZeros(digits)
    IN IF Len(d) <= 9 THEN Small(PlainValue(d))
       ELSE MulAdd(Small(PlainValue(SubSeq(d, 1, 9))), 10, ToDigit(d[10])).v

\* w is sm_, then the n digits of a u32, then at most one lowercase letter.
SplitsAt(w, n) ==
    /\ Len(w) >= 3 + n /\ n >= 1
    /\ SubSeq(w, 1, 3) = <<"s", "m", "_">>
    /\ \A i \in 4..(3 + n) : w[i] \in DecDigits
    /\ ~Exceeds(SubSeq(w, 4, 3 + n), 10, 32)
    /\ \/ Len(w) = 3 + n
       \/ Len(w) = 4 + n /\ w[Len(w)] \in LowerLetters

TargetOf(w, n) ==
    <<NumeralValue(SubSeq(w, 4, 3 + n)), IF Len(w) = 3 + n THEN <<>> ELSE <<w[Len(w)]>> >>

\* C2 (as claimed): on ".target" and a word, target succeeds exactly when the
\* word is sm_, one or more decimal digits forming a u32, at most one ASCII
\* lowercase letter, and then it returns (number, letter or None).
C2_TargetAcceptsDigits ==
    (entry = "target" /\ IsTargetInput) =>
        /\ out.ok <=> \E n \in 1..Len(TargetWord) : SplitsAt(TargetWord, n)
        /\ \A n \in 1..Len(TargetWord) :
              SplitsAt(TargetWord, n) => out.val = TargetOf(TargetWord, n)

\* The digits have no leading zero, unless the number is the single digit 0.
NoLeadingZero(w, n) == n = 1 \/ w[4] # "0"

\* C2 (amended): the same, for digits that do not start with a superfluous 0;
\* a word whose digits start with one (sm_05, sm_00) makes target fail.
C2_TargetAcceptsCanonicalDigits ==
    (entry = "target" /\ IsTargetInput) =>
        /\ out.ok <=> \E n \in 1..Len(TargetWord) :
                         SplitsAt(TargetWord, n) /\ NoLeadingZero(TargetWord, n)
        /\ \A n \in 1..Len(TargetWord) :
              (SplitsAt(TargetWord, n) /\ NoLeadingZero(TargetWord, n)) =>
                  (out.val = TargetOf(TargetWord, n) /\ out.input = <<>>
                     /\ out.state = <<>>)

\* sm_90a was parsed to (90, Some(a)).
C2_Witness ==
    /\ entry = "target" /\ IsTargetInput
    /\ TargetWord = <<"s", "m", "_", "9", "0", "a">>
    /\ out.ok /\ out.val = <<Small(90), <<"a">> >>

\* ------------------------------------------------------------------ C4

\* the component names and their indexes, as the claim lists them
ComponentIndex ==
    [n \in {"x", "r", "y", "g", "z", "b", "w", "a"} |->
        CASE n \in {"x", "r"} -> 0 [] n \in {"y", "g"} -> 1
          [] n \in {"z", "b"} -> 2 [] n \in {"w", "a"} -> 3]

\* the tokens are `ident . suffix`, possibly with more after them
IsMemberInput ==
    /\ entry = "operand" /\ Len(tokens) >= 3
    /\ tokens[1].k = "Ident" /\ tokens[2].k = "Dot" /\ tokens[3].k \in {"Ident", "Opcode"}

IsComponentName(s) == Len(s) = 1 /\ s[1] \in DOMAIN ComponentIndex

\* C4: every VecMember the operand parser produces has an index in 0..3;
\* for `ident . suffix` the parse succeeds with VecMember(ident, i), where i
\* is 0, 1, 2, 3 for x|r, y|g, z|b, w|a and no diagnostic is added, and for
\* any other suffix i is 0 and exactly one WrongVectorElement is appended.
C4_VecMemberIndex ==
    /\ entry = "operand" /\ out.ok /\ out.val.tag = "VecMember"
        => out.val.index \in 0..3
    /\ IsMemberInput =>
        /\ out.ok
        /\ out.input = SubSeq(tokens, 4, Len(tokens))
        /\ IF IsComponentName(tokens[3].s)
           THEN /\ out.val = VecMember(tokens[1].s, ComponentIndex[tokens[3].s[1]])
                /\ out.state = start.state
           ELSE /\ out.val = VecMember(tokens[1].s, 0)
                /\ out.state = Append(start.state, "WrongVectorElement")

\* C4 witness: a suffix that names no component was parsed into
\* VecMember(ident, 0) with one WrongVectorElement after an earlier diagnostic
C4_Witness ==
    /\ IsMemberInput /\ ~IsComponentName(tokens[3].s)
    /\ start.state = <<"Todo">>
    /\ out.ok /\ out.val.tag = "VecMember" /\ out.val.index = 0
    /\ out.state = <<"Todo", "WrongVectorElement">>

\* ------------------------------------------------- instructions, declaratively

IsInstr == entry = "instruction" /\ tokens[1].k = "Opcode"

\* the modifiers written after the opcode
Written == {tokens[i].k : i \in 2..Len(tokens)} \cap AllModifierTokens

\* the tokens after the modifiers
OperandText == SubSeq(tokens, Cardinality({i \in 2..Len(tokens) : tokens[i].k \in AllModifierTokens}) + 2, Len(tokens))

QualifierTokens == {".weak", ".volatile", ".relaxed", ".release", ".acquire"}

\* ------------------------------------------------------------------ C6

\* C6: a parsed st or ld written without a qualifier has the Weak
\* qualifier, without a state space the Generic one, without a cache operator
\* Writeback (st) or Cached (ld); without a vector prefix its type is a scalar;
\* a parsed ret without .uni is not uniform; `st.b32 [p], v` parses to
\* Weak, Generic, Writeback, scalar B32.
C6_Defaults ==
    /\ IsInstr /\ out.ok /\ out.val.tag \in {"St", "Ld"} =>
        /\ Written \cap QualifierTokens = {} => out.val.data.qualifier = [tag |-> "Weak"]
        /\ Written \cap (st_ss \cup ld_ss) = {} => out.val.data.state_space = "Generic"
        /\ Written \cap (st_cop \cup ld_cop) = {} =>
             out.val.data.caching = IF out.val.tag = "St" THEN "Writeback" ELSE "Cached"
        /\ Written \cap vec = {} => out.val.data.typ.tag = "Scalar"
    /\ IsInstr /\ out.ok /\ out.val.tag = "Ret" /\ ".uni" \notin Written =>
        out.val.data.uniform = FALSE
    /\ IsInstr /\ tokens[1].s = st_opcode /\ Written = {".b32"}
       /\ OperandText = <<Unit("LBracket"), p_name, Unit("RBracket"), Unit("Comma"), v_name>> =>
        /\ out.ok
        /\ out.val.data = [qualifier |-> [tag |-> "Weak"], state_space |-> "Generic",
                           caching |-> "Writeback",
                           typ |-> [tag |-> "Scalar", scalar |-> "B32"]]

\* C6 witness: `ld.b32 v, [p]` was parsed to Weak, Generic, Cached, scalar B32
C6_Witness ==
    /\ IsInstr /\ tokens[1].s = ld_opcode /\ Written = {".b32"} /\ Len(tokens) = 7
    /\ out.ok
    /\ out.val.data = [qualifier |-> [tag |-> "Weak"], state_space |-> "Generic",
                       caching |-> "Cached",
                       typ |-> [tag |-> "Scalar", scalar |-> "B32"],
                       non_coherent |-> FALSE]

\* ------------------------------------------------------------------ C7

AddOperandsWritten ==
    OperandText \in {<<v_name, Unit("Comma"), p_name, Unit("Comma"), q_name>>,
                     <<v_name, Unit("Comma"), p_name, Unit("Comma"), One>>}

\* the ScalarType of the integer type tokens of add, as the claim names them
IntegerTypeName ==
    [t \in add_type \cup {".s32"} |->
        CASE t = ".u16" -> "U16" [] t = ".u32" -> "U32" [] t = ".u64" -> "U64"
          [] t = ".s16" -> "S16" [] t = ".s32" -> "S32" [] t = ".s64" -> "S64"
          [] t = ".u16x2" -> "U16x2" [] t = ".s16x2" -> "S16x2"]

\* C7: a parsed integer add saturates exactly when .sat is written;
\* add.s32 gives {S32, false}, add.sat.s32 gives {S32, true}, and add with a
\* type of the add.type rule gives that type and false.
C7_SaturateIffSat ==
    /\ IsInstr /\ out.ok /\ out.val.tag = "Add" /\ out.val.data.tag = "Integer" =>
        out.val.data.saturate = (".sat" \in Written)
    /\ IsInstr /\ tokens[1].s = add_opcode /\ AddOperandsWritten =>
        /\ Written = {".s32"} =>
             out.ok /\ out.val.data = ArithInteger("S32", FALSE)
        /\ Written = {".sat", ".s32"} =>
             out.ok /\ out.val.data = ArithInteger("S32", TRUE)
        /\ \A t \in add_type : Written = {t} =>
             out.ok /\ out.val.data = ArithInteger(IntegerTypeName[t], FALSE)

\* C7 witness: `add.sat.s32 v, p, q` was parsed to a saturating S32 add
C7_Witness ==
    /\ IsInstr /\ tokens[1].s = add_opcode /\ Written = {".sat", ".s32"}
    /\ AddOperandsWritten
    /\ out.ok /\ out.val.data.tag = "Integer" /\ out.val.data.saturate

\* ------------------------------------------------------------------ C8

UnsupportedTokens ==
    level_eviction_priority \cup level_cache_hint \cup level_prefetch_size \cup {".unified"}

\* the trailing `, cache_policy` operand is written
PolicyWritten == Cardinality({i \in 1..Len(OperandText) : OperandText[i].k = "Comma"}) = 2

\* the unsupported parts written in the instruction
UnsupportedWritten ==
    {tokens[i].k : i \in 1..Len(tokens)} \cap UnsupportedTokens # {} \/ PolicyWritten

\* the instruction without its unsupported parts
RECURSIVE Supported(_)
Supported(ts) ==
    IF ts = <<>> THEN <<>>
    ELSE IF Head(ts).k \in UnsupportedTokens THEN Supported(Tail(ts))
    ELSE <<Head(ts)>> \o Supported(Tail(ts))

WithoutUnsupported ==
    IF PolicyWritten THEN Supported(SubSeq(tokens, 1, Len(tokens) - 2))
    ELSE Supported(tokens)

\* C8: an ld or st without .mmio that parses to its end appends exactly one Todo when an
\* eviction priority, .L2::cache_hint, a prefetch size, .unified or a trailing
\* cache_policy operand is written, however many of them, and nothing
\* otherwise; its data is the data of the instruction without these parts;
\* `st.relaxed.sys.global.L2::cache_hint.b32 [p], v, q` gives Relaxed(Sys),
\* Global, Writeback, B32 and one Todo.
C8_OneTodo ==
    /\ IsInstr /\ out.ok /\ out.input = <<>>
       /\ out.val.tag \in {"St", "Ld"} /\ ".mmio" \notin Written =>
        /\ out.state = IF UnsupportedWritten THEN Append(start.state, "Todo")
                       ELSE start.state
        /\ LET plain == parse_instruction([input |-> WithoutUnsupported,
                                           state |-> start.state])
           IN plain.ok /\ plain.state = start.state /\ plain.val = out.val
    /\ IsInstr /\ tokens[1].s = st_opcode /\ Len(tokens) >= 6
       /\ SubSeq(tokens, 2, 6) = <<Unit(".relaxed"), Unit(".sys"), Unit(".global"),
                                   Unit(".L2::cache_hint"), Unit(".b32")>>
       /\ OperandText = <<Unit("LBracket"), p_name, Unit("RBracket"), Unit("Comma"),
                          v_name, Unit("Comma"), q_name>> =>
        /\ out.ok
        /\ out.val.data = [qualifier |-> Relaxed("Sys"), state_space |-> "Global",
                           caching |-> "Writeback",
                           typ |-> [tag |-> "Scalar", scalar |-> "B32"]]
        /\ out.state = Append(start.state, "Todo")

\* C8 witness: a relaxed st with an eviction priority, a cache hint and a
\* cache policy was parsed and left exactly one Todo after an earlier one
C8_Witness ==
    /\ IsInstr /\ tokens[1].s = st_opcode
    /\ {".relaxed", ".L1::evict_first", ".L2::cache_hint"} \subseteq Written
    /\ PolicyWritten
    /\ start.state = <<"Todo">>
    /\ out.ok /\ out.state = <<"Todo", "Todo">>

\* ------------------------------------------------------------------ C5
\* The function the tokens write, read off the tokens.

IsFunctionInput == entry = "function" /\ tokens[1].k \in DOMAIN LinkingOf

\* the numerals written after the tuning directive, in order
WrittenValues ==
    [j \in 1..ValuesInLast |-> NumeralValue(tokens[LastTuning + 2 * j - 1].s)]

\* the j-th component of the triple the values stand for
Component(j) == IF j <= ValuesInLast THEN WrittenValues[j] ELSE Small(1)

\* one .maxntid or .reqntid directive with one to three values, and a body
IsTupleCase ==
    /\ IsFunctionInput /\ BodyWritten /\ TuningCount = 1
    /\ tokens[LastTuning].k \in {".maxntid", ".reqntid"}
    /\ ValuesInLast \in 1..3

\* C5: for .maxntid or .reqntid followed by k values, k in {1, 2, 3}, the
\* function parse succeeds and the tuning entry is the triple of the k values
\* in order, the remaining components 1.
C5_TupleOfOneToThree ==
    IsTupleCase =>
        /\ out.ok
        /\ out.val.func.tuning =
             <<[tag |-> TuningOf[tokens[LastTuning].k],
                v |-> <<Component(1), Component(2), Component(3)>>]>>

\* ------------------------------------------------------------------ C1

IsModuleInput == entry = "module"

\* C1: when module.parse returns a Module the cursor is at the end of the
\* tokens; when module leaves a token unread after the last directive it
\* matches, module.parse fails and returns no Module.
C1_TotalConsumption ==
    IsModuleInput =>
        /\ out.ok => out.input = <<>>
        /\ (module(start).ok /\ module(start).input # <<>>) =>
               (~out.ok /\ out.val = <<>>)

\* C1 witness: module matched a function and stopped at a token that starts
\* no directive, and the parse was refused
C1_Witness ==
    /\ IsModuleInput /\ ~out.ok
    /\ module(start).ok /\ Len(module(start).val.directives) = 1
    /\ module(start).input # <<>>

\* ----------------------------------------------------------------- C10
\* The module the tokens write, read off the tokens.

WrittenVersion == <<NumeralValue(tokens[2].s), NumeralValue(tokens[4].s)>>

WrittenTarget ==
    TargetOf(tokens[6].s, CHOOSE n \in 1..Len(tokens[6].s) : SplitsAt(tokens[6].s, n))

AddressSizeWritten == \E i \in 1..Len(tokens) : tokens[i].k = ".address_size"

RECURSIVE WrittenMethods(_)
\* linking, kind and name of the functions written from token i on, in order
WrittenMethods(i) ==
    IF i >= Len(tokens) THEN <<>>
    ELSE IF tokens[i].k \in DOMAIN LinkingOf
    THEN <<[linking |-> LinkingOf[tokens[i].k],
            name |-> [tag |-> IF tokens[i + 1].k = ".entry" THEN "Kernel" ELSE "Func",
                      name |-> tokens[i + 2].s]]>> \o WrittenMethods(i + 1)
    ELSE WrittenMethods(i + 1)

\* the directives of the Module are the written functions, in their order
DirectivesInOrder ==
    /\ Len(out.val.directives) = Len(WrittenMethods(1))
    /\ \A i \in 1..Len(out.val.directives) :
         /\ out.val.directives[i].tag = "Method"
         /\ out.val.directives[i].linking = WrittenMethods(1)[i].linking
         /\ out.val.directives[i].func.func_directive.name = WrittenMethods(1)[i].name

\* C10 (as claimed): the Module of a successful parse records the version,
\* the shader-model tag of .target, whether an address size was given, and
\* the directives in source order.
C10_ModuleRecordsHeader ==
    (IsModuleInput /\ out.ok) =>
        /\ out.val.version = WrittenVersion
        /\ "target" \in DOMAIN out.val /\ out.val.target = WrittenTarget
        /\ "address_size" \in DOMAIN out.val
        /\ out.val.address_size = AddressSizeWritten
        /\ DirectivesInOrder

\* C10 (amended): the Module of a successful parse records the version and
\* the directives in source order, and nothing else: .target and
\* .address_size are parsed and dropped.
C10_ModuleRecordsVersionAndDirectives ==
    (IsModuleInput /\ out.ok) =>
        /\ DOMAIN out.val = {"version", "directives"}
        /\ out.val.version = WrittenVersion
        /\ DirectivesInOrder

\* C10 witness: a module with .address_size and two different functions was
\* parsed
C10_Witness ==
    /\ IsModuleInput /\ out.ok /\ AddressSizeWritten
    /\ Len(out.val.directives) = 2
    /\ out.val.directives[1].func.func_directive.name.tag = "Func"
    /\ out.val.directives[2].func.func_directive.name.tag = "Kernel"
    /\ out.val.version = <<Small(7), Small(8)>>

\* ----------------------------------------------------------------- C11
\* The statements the tokens write, read off the tokens.

RECURSIVE ShapeOf(_)
RECURSIVE ShapeOfList(_, _)
\* a statement as its tag, a block as its statements between "{" and "}"
ShapeOf(e) ==
    IF e.tag = "Block" THEN <<"{">> \o ShapeOfList(e.body, 1) \o <<"}">>
    ELSE <<e.tag>>

ShapeOfList(xs, i) ==
    IF i > Len(xs) THEN <<>> ELSE ShapeOf(xs[i]) \o ShapeOfList(xs, i + 1)

\* what the token at i stands for, if it ends a statement or is a brace
WrittenAt(i) ==
    CASE tokens[i].k = "Colon" -> <<"Label">>
      [] tokens[i].k = ".reg" -> <<"Variable">>
      [] tokens[i].k = "Semicolon" /\ tokens[i - 1].k = "Opcode" -> <<"Instruction">>
      [] tokens[i].k = "LBrace" -> <<"{">>
      [] tokens[i].k = "RBrace" -> <<"}">>
      [] OTHER -> <<>>

RECURSIVE WrittenShape(_)
WrittenShape(i) ==
    IF i > Len(tokens) THEN <<>> ELSE WrittenAt(i) \o WrittenShape(i + 1)

IsBodyInput ==
    /\ entry = "function" /\ Len(tokens) > Len(BodyHead)
    /\ SubSeq(tokens, 1, Len(BodyHead)) = BodyHead

\* C11: a declaration followed by ";" has body None; one followed by
\* "{ statement* }" has body Some(list), and the list, with the list of every
\* nested block, holds the labels, variables, instructions and blocks in
\* source order; .loc and .pragma contribute nothing.
C11_BodyInSourceOrder ==
    (IsBodyInput /\ out.ok) =>
        IF tokens[Len(BodyHead) + 1].k = "Semicolon"
        THEN out.val.func.body = <<>>
        ELSE /\ Len(out.val.func.body) = 1
             /\ <<"{">> \o ShapeOfList(out.val.func.body[1], 1) \o <<"}">>
                  = WrittenShape(1)

\* C11 witness: a body of a .loc and a nested block holding a .pragma and
\* an instruction was parsed to a block of one instruction
C11_Witness ==
    /\ IsBodyInput /\ out.ok /\ out.input = <<>>
    /\ CountOf({".loc"}) = 1 /\ CountOf({".pragma"}) = 1
    /\ ShapeOfList(out.val.func.body[1], 1) = <<"{", "Instruction", "}">>

\* ------------------------------------------------------------ C12, C20
\* Which rules accept the modifiers written after an opcode, read off the
\* rule table with a matcher that tries every way of skipping optionals.

RECURSIVE Accepts(_, _, _, _)
\* the modifier positions from i on accept the tokens from j on: a position
\* takes the next token or, when optional, is absent
Accepts(slots, i, mods, j) ==
    IF i > Len(slots) THEN j > Len(mods)
    ELSE \/ j <= Len(mods) /\ mods[j] \in slots[i].toks /\ Accepts(slots, i + 1, mods, j + 1)
         \/ slots[i].optional /\ Accepts(slots, i + 1, mods, j)

\* the rules of an opcode that accept the modifiers
Matching(opcode, mods) ==
    {i \in DOMAIN Rules : Rules[i].opcode = opcode /\ Accepts(Rules[i].mods, 1, mods, 1)}

\* the modifiers written after the opcode
ModifiersWritten ==
    [j \in 1..Cardinality({i \in 2..Len(tokens) : tokens[i].k \in AllModifierTokens})
        |-> tokens[j + 1].k]

\* mandatory modifier positions of rule i
MandatoryCount(i) ==
    Cardinality({j \in DOMAIN Rules[i].mods : ~Rules[i].mods[j].optional})

\* the rule of ms requiring the most tokens, the earliest among equals
MostSpecific(ms) ==
    CHOOSE i \in ms : \A j \in ms :
        \/ MandatoryCount(i) > MandatoryCount(j)
        \/ MandatoryCount(i) = MandatoryCount(j) /\ i <= j

OneReplaced(mods) ==
    {mods} \cup {[mods EXCEPT ![j] = t] : j \in DOMAIN mods, t \in AllModifierTokens}

\* at most one rule of the opcode accepts each of these modifier sequences
Disjoint ==
    (entry = "lex" /\ OnlyModifiers) =>
        \A mods \in OneReplaced(ModifiersWritten) :
            Cardinality(Matching(tokens[1].s, mods)) <= 1

AddRules == {i \in DOMAIN Rules : Rules[i].opcode = add_opcode}

\* C20 (as claimed): at most one rule of an opcode accepts a sequence of
\* modifiers, and the add rules are nine.
C20_DisjointNineAddRules == Disjoint /\ Cardinality(AddRules) = 9

\* C20 (amended): at most one rule of an opcode accepts a sequence of
\* modifiers; the add rules are eight.
C20_DisjointVariants == Disjoint /\ Cardinality(AddRules) = 8

\* C20 witness: `add.sat.s32` is accepted by the add{.sat}.s32 rule alone
C20_Witness ==
    /\ entry = "lex" /\ OnlyModifiers /\ tokens[1].s = add_opcode
    /\ ModifiersWritten = <<".sat", ".s32">>
    /\ Matching(add_opcode, ModifiersWritten) = {13}

\* ------------------------------------------------------------------ C13

\* the diagnostics the run appended
Appended == SubSeq(out.state, Len(start.state) + 1, Len(out.state))

\* the places of a diagnostic among the appended ones
PlacesOf(d) == {i \in DOMAIN Appended : Appended[i] = d}

\* a modifier that makes the body of an ld or st rule push Todo is written
TodoModifierWritten ==
    Written \cap (level_eviction_priority \cup level_cache_hint
                  \cup level_prefetch_size) # {}

\* the rejected numeral is among the operands
NumeralWritten == \E i \in DOMAIN OperandText : OperandText[i] = Eight

\* C13: on a successful parse the diagnostics are in the order of the tokens
\* their causes start at: the Todo of an instruction's modifier comes before
\* the ParseInt of a later operand of the same instruction.
C13_DiscoveryOrder ==
    IsInstr /\ out.ok /\ TodoModifierWritten /\ NumeralWritten
       /\ PlacesOf("Todo") # {} /\ PlacesOf("ParseInt") # {} =>
        \A i \in PlacesOf("Todo") : \A j \in PlacesOf("ParseInt") : i < j

\* C13 witness: `st.L1::evict_first.b32 [p], 08` was parsed and left both a
\* Todo and a ParseInt
C13_Witness ==
    /\ IsInstr /\ out.ok /\ tokens[1].s = st_opcode
    /\ Written = {".L1::evict_first", ".b32"}
    /\ OperandText = <<Unit("LBracket"), p_name, Unit("RBracket"), Unit("Comma"), Eight>>
    /\ PlacesOf("Todo") # {} /\ PlacesOf("ParseInt") # {}

\* ------------------------------------------------------------------ C14

\* the alternatives of statement, each run where the statement begins
Alternatives ==
    <<Some(label(start)), None(debug_directive(start)), Some(multi_variable(start)),
      Some(predicated_instruction(start)), None(pragma(start)),
      Some(block_statement(start))>>

Succeeding == {i \in DOMAIN Alternatives : Alternatives[i].ok}

FirstSucceeding == CHOOSE i \in Succeeding : \A j \in Succeeding : i <= j

\* C14: every alternative of statement and the body of opt(pred_at) start
\* at the token the attempt began at, whatever the attempts before popped:
\* statement gives what its first succeeding alternative gives from the
\* first token and fails when there is none; opt(pred_at) gives None with
\* the cursor at the first token when pred_at fails; `ret :` is a Label and
\* `ret ;` an instruction.
C14_AttemptsStartAtTheSameToken ==
    /\ entry = "statement" =>
        /\ out.ok = (Succeeding # {})
        /\ out.ok => /\ out.val = Alternatives[FirstSucceeding].val
                     /\ out.input = Alternatives[FirstSucceeding].input
        /\ tokens = <<WordToken(ret_opcode), Unit("Colon")>> =>
             out.ok /\ out.input = <<>>
             /\ out.val = <<[tag |-> "Label", name |-> ret_opcode]>>
        /\ tokens = <<WordToken(ret_opcode), Unit("Semicolon")>> =>
             out.ok /\ out.input = <<>> /\ out.val[1].tag = "Instruction"
             /\ out.val[1].instr = parse_instruction(
                    [input |-> <<WordToken(ret_opcode)>>, state |-> <<>>]).val
    /\ entry = "opt_pred_at" =>
        /\ out.ok
        /\ IF pred_at(start).ok
           THEN out.val = <<pred_at(start).val>> /\ out.input = pred_at(start).input
           ELSE out.val = <<>> /\ out.input = start.input

\* C14 witness: on `ret ;` label popped ret and failed, and the statement
\* was parsed as an instruction from ret on
C14_Witness ==
    /\ entry = "statement"
    /\ tokens = <<WordToken(ret_opcode), Unit("Semicolon")>>
    /\ ~label(start).ok /\ Len(label(start).input) < Len(start.input)
    /\ out.ok /\ out.val[1].tag = "Instruction" /\ out.input = <<>>

\* ------------------------------------------------------------------ C15

\* int_immediate was run on `-` and a numeral that ends with U
IsNegativeUnsigned ==
    /\ entry = "int_immediate" /\ IsLiteralInput /\ HasMinus /\ LitUnsigned
    /\ ValidDigits(LitDigits, LitRadix)

\* C15 (as claimed): a literal -NU is accepted with no diagnostic and its
\* value is the unsigned variant.
C15_NegativeUnsignedIsUnsigned ==
    IsNegativeUnsigned =>
        out.ok /\ out.state = start.state /\ out.val.tag = "U64"

\* C15 (amended): a literal -NU is accepted and its U is ignored: the value
\* is S64(-N) with no diagnostic when N is at most i64::MAX, and S64(0) with
\* one ParseInt when N is larger.
C15_NegativeUnsignedIsSigned ==
    IsNegativeUnsigned =>
        /\ out.ok /\ out.input = <<>> /\ out.val.tag = "S64"
        /\ IF Exceeds(LitDigits, LitRadix, 63)
           THEN out.val = [tag |-> "S64", neg |-> FALSE, mag |-> Zero]
                /\ OneMoreParseInt
           ELSE out.val = [tag |-> "S64", neg |-> LitValue # Zero, mag |-> LitValue]
                /\ out.state = start.state

\* C15 witness: `-1U` was parsed to S64(-1) and nothing was pushed
C15_Witness ==
    /\ IsNegativeUnsigned /\ LitTok.s = <<"1", "U">>
    /\ out.ok /\ out.val = [tag |-> "S64", neg |-> TRUE, mag |-> Small(1)]
    /\ out.state = start.state

\* ------------------------------------------------------------------ C16

\* what is written before and after the digits of a Hex or Decimal token
PrefixOf(t) == IF t.k = "Hex" THEN SubSeq(t.s, 1, 2) ELSE <<>>

SuffixOf(t) == IF EndsWithU(t.s) THEN <<"U">> ELSE <<>>

\* a Decimal token that starts with 0 and has an 8 or a 9 among its digits
IsBadOctal(t) ==
    /\ t.k = "Decimal" /\ t.s[1] = "0"
    /\ \E i \in DOMAIN t.s : t.s[i] \in {"8", "9"}

\* C16: num gives, for a Hex token, its digits without 0x / 0X and without
\* a trailing U, radix 16 and the flag `ends with U`; for a Decimal token,
\* its digits without a trailing U, radix 8 when it starts with 0 and 10
\* otherwise, and the same flag; it fails on every other token.  A Decimal
\* token that starts with 0 and has an 8 or 9 gives the zero fallback and
\* one ParseInt; the token 0 gives 0 and no diagnostic.
C16_NumDecodes ==
    /\ entry = "num" =>
        LET t == start.input[1]
        IN IF t.k \in {"Hex", "Decimal"}
           THEN /\ out.ok /\ out.input = Tail(start.input)
                /\ out.state = start.state
                /\ PrefixOf(t) \o out.val.text \o SuffixOf(t) = t.s
                /\ t.k = "Hex" => PrefixOf(t) \in {<<"0", "x">>, <<"0", "X">>}
                /\ out.val.radix = (IF t.k = "Hex" THEN 16
                                    ELSE IF t.s[1] = "0" THEN 8 ELSE 10)
                /\ out.val.unsigned = (t.s[Len(t.s)] = "U")
           ELSE ~out.ok /\ out.input = start.input /\ out.state = start.state
    /\ entry \in {"u8", "u32", "s32", "int_immediate"} /\ Len(start.input) = 1 =>
        /\ IsBadOctal(start.input[1]) =>
             out.ok /\ ZeroFallback(entry) /\ OneMoreParseInt
        /\ start.input[1] = Text("Decimal", <<"0">>) =>
             /\ out.ok /\ out.state = start.state
             /\ out.val = CASE entry \in {"u8", "u32"} -> Zero
                            [] entry = "s32" -> [neg |-> FALSE, mag |-> Zero]
                            [] entry = "int_immediate" ->
                                 [tag |-> "S64", neg |-> FALSE, mag |-> Zero]

\* C16 witness: u32 was run on `08` and gave 0 and a ParseInt after the
\* diagnostic already there
C16_Witness ==
    /\ entry = "u32" /\ start.input = <<Text("Decimal", <<"0", "8">>)>>
    /\ num(start).val = [text |-> <<"0", "8">>, radix |-> 8, unsigned |-> FALSE]
    /\ out.ok /\ out.val = Zero /\ out.state = <<"Todo", "ParseInt">>

\* ------------------------------------------------------------------ C17

\* the last m elements of a sequence, and the ones before them
LastOf(s, m) == SubSeq(s, Len(s) - m + 1, Len(s))

AllBut(s, m) == SubSeq(s, 1, Len(s) - m)

\* C17: k next_token calls in a row on a stream holding s of length n return
\* s[n-1], ..., s[n-k] and leave s[0..n-k]; next_token returns None exactly
\* when the stream is empty; next_slice(m) returns the last m elements left
\* and leaves the others; reset(c) gives the stream the elements it held when
\* c was taken.
C17_ReverseStreamOrder ==
    entry = "reverse" =>
        /\ LET s == Elements(out.from)
               n == Len(s)
               k == Len(out.got)
           IN /\ k <= n
              /\ \A i \in 1..k : out.got[i] = s[n - i + 1]
              /\ out.call = "next_token" => Elements(out.self) = AllBut(s, k)
        /\ out.call = "next_token" =>
              /\ (out.ret.token = <<>>) = (Elements(out.before) = <<>>)
              /\ out.ret.token = <<>> => out.self = out.before
        /\ out.call = "next_slice" =>
              /\ Elements(out.ret.slice) = LastOf(Elements(out.before), out.arg)
              /\ Elements(out.self) = AllBut(Elements(out.before), out.arg)
        /\ out.call = "reset" => Elements(out.self) = start.held

\* C17 witness: three next_token calls in a row on [`,`, `,`, `;`] returned
\* `;`, `,`, `,`, a fourth returned None
C17_Witness ==
    /\ entry = "reverse" /\ tokens = <<Unit("Comma"), Unit("Comma"), Unit("Semicolon")>>
    /\ out.from = Slice(0, 3)
    /\ out.got = <<Unit("Semicolon"), Unit("Comma"), Unit("Comma")>>
    /\ out.call = "next_token" /\ out.ret.token = <<>> /\ out.self.len = 0

\* ------------------------------------------------------------------ C18

\* C18: offset_from(c) is the number of tokens consumed since c was taken.
C18_OffsetIsConsumed ==
    entry = "reverse" /\ out.call = "offset_from" => out.ret.number = start.consumed

\* C18 witness: offset_from was called after a token was consumed since the
\* checkpoint
C18_Witness ==
    /\ entry = "reverse" /\ out.call = "offset_from" /\ start.consumed = 1
    /\ out.self.len = start.checkpoint.len - 1

\* ------------------------------------------------------------------ C19

\* the places of the rejected numeral in the tokens
RejectedAt == {i \in DOMAIN tokens : tokens[i] = Eight}

KindAt(i) == IF i \in DOMAIN tokens THEN tokens[i].k ELSE "none"

\* the rejected numeral at place i is read by an attempt that is abandoned
\* after it: by address_size, which wants 64; by the count of a variable
\* that has no ">"; by the tail of .loc that lacks a numeral; by an
\* instruction that has no ";"
ReadByAbandoned(i) ==
    \/ KindAt(i - 1) = ".address_size"
    \/ KindAt(i - 1) = "Lt" /\ KindAt(i + 1) # "Gt"
    \/ tokens[i - 1] = Text("Ident", inlined_at) /\ KindAt(i + 2) # "Decimal"
    \/ tokens[i - 1] = Unit("Comma") /\ tokens[i - 2] = r_name
       /\ KindAt(i + 1) # "Semicolon"

\* C19: a successful parse of a module holds one diagnostic for each
\* rejected numeral of the tokens, each of which the accepted derivation
\* reads once, and no other: no attempt that was abandoned after it had read
\* a rejected numeral is followed by a successful parse.
C19_OnlyAcceptedDiagnostics ==
    entry = "module" =>
        /\ out.ok => /\ out.input = <<>>
                     /\ out.state = [i \in 1..Cardinality(RejectedAt) |-> "ParseInt"]
        /\ (\E i \in RejectedAt : ReadByAbandoned(i)) => ~out.ok

\* C19 witness: a module with `.reg .b32 r<08>;` and a `mov.b32 r, 08;` in
\* its body, and opt(address_size) and the last attempt of every repeat
\* abandoned, was parsed and holds the two diagnostics
C19_Witness ==
    /\ entry = "module" /\ out.ok
    /\ KindAt(7) = ".visible"
    /\ \E i \in RejectedAt : KindAt(i - 1) = "Lt" /\ KindAt(i + 1) = "Gt"
    /\ \E i \in RejectedAt : tokens[i - 1] = Unit("Comma") /\ tokens[i - 2] = r_name
    /\ out.state = <<"ParseInt", "ParseInt">>

\* ------------------------------------------------------------------ C21

\* every successful run of a repeated parser has consumed a token
RunsConsume ==
    entry \in {"repeat", "repeated"} /\ out.run.ok => out.run.consumed >= 1

\* an ended repeat holds a result, the one the grammar's repeat gives from
\* the same tokens
EndsWithResult ==
    entry = "repeated" =>
        LET r == RepeatOf(start.parser, [input |-> start.input, state |-> start.state])
        IN /\ out.ok /\ r.ok
           /\ out.input = r.input /\ out.state = r.state
           /\ out.val = ItemsOf(start.parser, r)

\* an iteration after which the repeat goes on has moved the cursor forward
IterationAdvances ==
    entry = "repeat" /\ entry' = "repeat" => Len(out'.input) < Len(out.input)

\* C21: every successful run of directive, tuning_directive and statement
\* consumes at least one token, every iteration of a repeat strictly
\* advances the cursor, and every repeat that is entered ends, with the
\* result the grammar's repeat gives (nested blocks included).
C21_RepeatsTerminate ==
    /\ [](RunsConsume /\ EndsWithResult)
    /\ [][IterationAdvances]_vars
    /\ (entry = "repeat") ~> (entry = "repeated")

\* C21 witness: a repeat of statement ended after three iterations, one of
\* them over a block with a statement in it
C21_Witness ==
    /\ entry = "repeated" /\ start.parser = "statement"
    /\ Len(out.val) = 3
    /\ \E i \in DOMAIN out.val :
         /\ out.val[i] # <<>> /\ out.val[i][1].tag = "Block"
         /\ out.val[i][1].body # <<>>

\* ------------------------------------------------------------------ C22

\* 2^31, the magnitude of i32::MIN
TwoTo31 == <<0, 2 ^ 15, 0, 0>>

\* the operand of the negation is a non-negative value of the width, so the
\* negated value is in [-(2^bits - 1), 0]
NegatedInRange(v, bits) == FitsBits(v.mag, bits) /\ (v.neg <=> v.mag # Zero)

\* the zero fallback with one more ParseInt in the buffer
FellBack == out.val.mag = Zero /\ ~out.val.neg /\ out.state = Append(start.state, "ParseInt")

\* C22: the negation of int_immediate and of s32 acts on a non-negative i64
\* (i32), so a `-N` literal gives a value in [-(2^63 - 1), 0]
\* ([-(2^31 - 1), 0]); the literal i64::MIN (for s32, i32::MIN) gives the
\* fallback 0 and one ParseInt diagnostic.
C22_NegationNeverOverflows ==
    /\ (entry = "int_immediate" /\ IsLiteralInput /\ HasMinus) =>
          /\ out.ok /\ out.val.tag = "S64"
          /\ NegatedInRange(out.val, 63)
          /\ LitValue = TwoTo63 => FellBack
    /\ (entry = "s32" /\ IsLiteralInput /\ HasMinus) =>
          /\ out.ok
          /\ NegatedInRange(out.val, 31)
          /\ LitValue = TwoTo31 => FellBack

\* C22 witness: int_immediate has read `-9223372036854775808` and fell back
C22_Witness ==
    /\ entry = "int_immediate" /\ IsLiteralInput /\ HasMinus
    /\ LitTok.k = "Decimal" /\ LitRadix = 10 /\ ~LitUnsigned
    /\ LitValue = TwoTo63
    /\ out.ok /\ FellBack

\* ------------------------------------------------------------------ C23

\* the token that introduces the declaration
Introducer == tokens[1].k

\* the place of the method's name in the tokens
NameAt == CHOOSE i \in DOMAIN tokens : IsMethodName(i)

\* the places from lo to hi where a parameter starts, in order
RECURSIVE ParameterStarts(_, _)
ParameterStarts(lo, hi) ==
    IF lo > hi THEN <<>>
    ELSE IF tokens[lo].k \in ParameterSpaces THEN <<lo>> \o ParameterStarts(lo + 1, hi)
    ELSE ParameterStarts(lo + 1, hi)

\* the state space and name of the parameters written from lo to hi
WrittenParameters(lo, hi) ==
    LET at == ParameterStarts(lo, hi)
    IN [j \in DOMAIN at |->
           [state_space |-> VariableSpace[tokens[at[j]].k], name |-> tokens[at[j] + 2].s]]

\* the state space and name of the variables of a list of the declaration
Recorded(arguments) ==
    [j \in DOMAIN arguments |->
        [state_space |-> arguments[j].state_space, name |-> arguments[j].name]]

\* every parameter written from lo to hi starts with one of the kinds
StartWith(lo, hi, kinds) ==
    \A i \in lo..hi : tokens[i].k \in ParameterSpaces => tokens[i].k \in kinds

\* the declaration is written to its end: a name with a closed list after it
DeclarationComplete ==
    /\ NameWritten /\ OpenLists = 0
    /\ NameAt < Len(tokens) /\ tokens[Len(tokens)].k = "RParen"

\* C23: a declaration introduced by .entry has no return arguments, the name
\* Kernel(name) and parameters that all start with .param and are recorded
\* with state space Param; one introduced by .func has the name Func(name),
\* the return arguments of the optional list before the name, and parameters
\* that start with .param or .reg and are recorded with the matching state
\* space; a declaration written so is accepted, and any other leading token
\* makes it fail.
C23_MethodDeclaration ==
    entry = "method_declaration" =>
        /\ Introducer \notin {".entry", ".func"} => ~out.ok
        /\ (out.ok /\ Introducer = ".entry") =>
              /\ NameAt = 2
              /\ out.val.return_arguments = <<>>
              /\ out.val.name = [tag |-> "Kernel", name |-> tokens[2].s]
              /\ StartWith(3, Len(tokens), {".param"})
              /\ Recorded(out.val.input_arguments) = WrittenParameters(3, Len(tokens))
              /\ \A j \in DOMAIN out.val.input_arguments :
                    out.val.input_arguments[j].state_space = "Param"
        /\ (out.ok /\ Introducer = ".func") =>
              /\ out.val.name = [tag |-> "Func", name |-> tokens[NameAt].s]
              /\ StartWith(2, Len(tokens), {".param", ".reg"})
              /\ Recorded(out.val.return_arguments) = WrittenParameters(2, NameAt - 1)
              /\ Recorded(out.val.input_arguments) = WrittenParameters(NameAt + 1, Len(tokens))
        /\ (DeclarationComplete /\ Introducer = ".entry" /\ NameAt = 2
              /\ StartWith(3, Len(tokens), {".param"})) => out.ok
        /\ (DeclarationComplete /\ Introducer = ".func"
              /\ StartWith(2, Len(tokens), {".param", ".reg"})) => out.ok

\* C23 witness: `.func (.reg .b32 a) f(.param .b32 a, .reg .b32 b)` was
\* parsed
C23_Witness ==
    /\ entry = "method_declaration" /\ out.ok /\ Introducer = ".func"
    /\ Recorded(out.val.return_arguments) = <<[state_space |-> "Reg", name |-> <<"a">>]>>
    /\ Recorded(out.val.input_arguments) =
          <<[state_space |-> "Param", name |-> <<"a">>],
            [state_space |-> "Reg", name |-> <<"b">>]>>

====
